---- MODULE Spec2Model ----
(***************************************************************************)
(* Reconciliation and task generation of ccloud-sa-api-automation.         *)
(*                                                                         *)
(* State: the declaration and configuration (csm_bundle), the provider     *)
(* caches (ccloud_bundle: service accounts, clusters, API keys), the       *)
(* secret-store cache (secret_bundle), the reconcilers' key sets           *)
(* (task_generator.py), the tasks a workflow phase has yielded so far      *)
(* (workflows.py) and the task ledger of config_store.py.                  *)
(*                                                                         *)
(* Strings that are joined with "~" and split again are sequences of       *)
(* tokens, the separator being a token of its own, so that join and split  *)
(* are computed as the code computes them.                                 *)
(***************************************************************************)
EXTENDS Integers, Sequences, FiniteSets, TLC

VARIABLES
    decl,               \* csm_bundle.csm_definitions.sa: set of SA definitions
    cfg,                \* csm_bundle.csm_configs.ccloud and the run flags
    sa,                 \* ccloud_bundle.cc_service_accounts.sa (the cache)
    clusters,           \* ccloud_bundle.cc_clusters.cluster (ids of known clusters)
    pages,              \* the pages of service accounts the provider has still to answer with
    call,               \* a call of a function of helpers.py: its arguments and its outcome
    api_keys,           \* ccloud_bundle.cc_api_keys.api_keys, in insertion order
    secrets,            \* secret_bundle.secret
    sa_in_def,          \* CSMServiceAccountTasks.sa_in_def
    sa_in_ccloud,       \* CSMServiceAccountTasks.sa_in_ccloud
    api_keys_in_def,    \* CSMAPIKeyTasks.api_keys_in_def (class attribute)
    api_keys_in_ccloud, \* CSMAPIKeyTasks.api_keys_in_ccloud (class attribute)
    create_secrets_req, \* CSMAPIKeyTasks.create_secrets_req
    update_secrets_req, \* CSMAPIKeyTasks.update_secrets_req
    definition_rest_proxy_users, \* CSMSecretManagerTasks.definition_rest_proxy_users
    phase,              \* the WorkflowManager method in progress, or "idle"
    todo,               \* what the phase's task generator has still to iterate over
    cur,                \* index in tasks of the task whose effector is due, or 0
    tasks,              \* the tasks yielded so far by the phase in progress (or the last one)
    req,                \* the sets the generator of that phase computed when it started
    prev,               \* per phase: the sets of its previous pass, while nothing was mutated since
    rerun,              \* the phase in progress (or the last one) started over unmutated state
    crashed,            \* the exception that escaped and ended the run, or "none"
    nphases,            \* number of phases started
    step,               \* position in the caller's sequence of phases; 0: any phase may be called
    clean,              \* in the caller's sequence, no effector call has failed or raised so far
    nkeys,              \* number of API keys created in this run
    ledger              \* CSMConfigDataMap.tasks of config_store.py

vars == <<decl, cfg, sa, clusters, pages, call, api_keys, secrets, sa_in_def, sa_in_ccloud,
          api_keys_in_def, api_keys_in_ccloud, create_secrets_req, update_secrets_req,
          definition_rest_proxy_users, phase, todo, cur, tasks, req, prev, rerun, crashed,
          nphases, step, clean, nkeys, ledger>>

inputs == <<decl, cfg, clusters, pages, call>>
caches == <<sa, api_keys, secrets>>
sasets == <<sa_in_def, sa_in_ccloud>>
keysets == <<api_keys_in_def, api_keys_in_ccloud>>
secretreqs == <<create_secrets_req, update_secrets_req, definition_rest_proxy_users>>
run == <<nphases, step, clean>>

(***************************************************************************)
(* Bounds of the model.                                                    *)
(***************************************************************************)
MaxPhases == 3      \* phases one run of the model starts
MaxNewKeys == 2     \* API keys one run of the model creates
MaxSets == 2        \* ledger tasks whose outcome the model records

(***************************************************************************)
(* Strings.                                                                *)
(***************************************************************************)
Tilde == "~"
Wildcard == <<"FORCE_ALL_CLUSTERS">>

\* "~".join([a, b])
Join(a, b) == a \o <<Tilde>> \o b

\* position of the first separator of s, 0 when there is none
FirstTilde(s) ==
    IF \E i \in 1..Len(s) : s[i] = Tilde
    THEN CHOOSE i \in 1..Len(s) : s[i] = Tilde /\ \A j \in 1..(i - 1) : s[j] # Tilde
    ELSE 0

\* s.split("~", 1)
Split(s) ==
    IF FirstTilde(s) = 0 THEN <<s>>
    ELSE <<SubSeq(s, 1, FirstTilde(s) - 1), SubSeq(s, FirstTilde(s) + 1, Len(s))>>

(***************************************************************************)
(* Universe of the inputs.                                                 *)
(***************************************************************************)
SvcA == <<"svc-a">>
SvcB == <<"svc-b">>
OldSa == <<"old-sa">>
Lkc1 == <<"lkc-1">>
Lkc2 == <<"lkc-2">>

\* the resource id the provider gives the account of a name
ProviderSaId(name) ==
    CASE name = SvcA -> "sa-1"
      [] name = SvcB -> "sa-2"
      [] OTHER -> "sa-3"

\* the environment a cluster lives in
EnvOf(cluster_id) == IF cluster_id = Lkc1 THEN "env-1" ELSE "env-2"

\* the id the provider gives the n-th API key created in this run
ProviderKeyId(n) ==
    CASE n = 1 -> "new-1" [] n = 2 -> "new-2" [] n = 3 -> "new-3" [] OTHER -> "new-4"

None == "None"
NoSa == [resource_id |-> None, name |-> <<None>>]
NoKey == [api_key |-> None, owner_id |-> None, cluster_id |-> <<None>>,
          api_secret |-> FALSE, age |-> 0]
NoDef == [name |-> <<None>>, description |-> None, cluster_list |-> {},
          is_rp_user |-> FALSE, rp_access |-> FALSE]

SaDef(n, cl) ==
    [name |-> n, description |-> "by definition", cluster_list |-> cl,
     is_rp_user |-> FALSE, rp_access |-> FALSE]
Account(n) == [resource_id |-> ProviderSaId(n), name |-> n]
ApiKey(id, owner, c, a) ==
    [api_key |-> id, owner_id |-> owner, cluster_id |-> c, api_secret |-> FALSE, age |-> a]
Secret(n, c, k) ==
    [secret_name |-> Join(n, c), sa_name |-> n, cluster_id |-> c, api_key |-> k,
     rp_access |-> "False", sync_needed_for_rp |-> "False"]

Range(s) == {s[i] : i \in DOMAIN s}

(***************************************************************************)
(* Python values that the code compares with ==: a str and an object are   *)
(* never equal, whatever they hold.                                        *)
(***************************************************************************)
PyStr(x) == [type |-> "str", val |-> x]
PyObj(x) == [type |-> "CCloudServiceAccount", val |-> x.resource_id]
PyNone == [type |-> "NoneType", val |-> None]

(***************************************************************************)
(* Set-diff engine.                                                        *)
(***************************************************************************)
find_items_to_be_created(config_item_names, ccloud_item_names) ==
    config_item_names \ ccloud_item_names

find_items_to_be_deleted(config_item_names, ccloud_item_names) ==
    ccloud_item_names \ config_item_names

(***************************************************************************)
(* Lookups in the declaration and in the caches.                           *)
(***************************************************************************)
\* CCloudServiceAccountList.find_sa: the account of that name, or None
\* mutant: the cache is never found to hold the name
find_sa_never(sa_name) == NoSa

find_sa(sa_name) ==
    IF \E item \in sa : item.name = sa_name
    THEN CHOOSE item \in sa : item.name = sa_name
    ELSE NoSa

\* cc_service_accounts.sa.get(resource_id)
sa_get(resource_id) ==
    IF \E item \in sa : item.resource_id = resource_id
    THEN CHOOSE item \in sa : item.resource_id = resource_id
    ELSE NoSa

\* csm_definitions.find_service_account: the definition of that name, or None
find_service_account(sa_name) ==
    IF \E d \in decl : d.name = sa_name
    THEN CHOOSE d \in decl : d.name = sa_name
    ELSE NoDef

\* cc_clusters.find_cluster: the cluster of that id, or None
find_cluster(cluster_id) ==
    IF cluster_id \in clusters
    THEN [cluster_id |-> cluster_id, env_id |-> EnvOf(cluster_id)]
    ELSE [cluster_id |-> <<None>>, env_id |-> None]

IsNoCluster(c) == c.env_id = None

\* cc_api_keys.find_keys_with_sa(sa_id): the keys that account owns
find_keys_with_sa(sa_id) ==
    LET Owned(k) == PyStr(k.owner_id) = sa_id IN SelectSeq(api_keys, Owned)

\* cc_api_keys.find_keys_with_sa_and_cluster(sa_id, cluster_id)
find_keys_with_sa_and_cluster(sa_id, cluster_id) ==
    LET Match(k) == k.cluster_id = cluster_id /\ PyStr(k.owner_id) = sa_id
    IN SelectSeq(api_keys, Match)

\* cc_api_keys.api_keys.get(api_key)
api_keys_get(id) ==
    IF \E i \in DOMAIN api_keys : api_keys[i].api_key = id
    THEN api_keys[CHOOSE i \in DOMAIN api_keys : api_keys[i].api_key = id]
    ELSE NoKey

\* cc_api_keys.mins_since_api_key_creation(api_key)
mins_since_api_key_creation(id) == api_keys_get(id).age

\* getattr(sa_id, "resource_id", None), as the argument of a key lookup
ResourceIdOf(account) ==
    IF account = NoSa THEN PyNone ELSE PyStr(account.resource_id)

(***************************************************************************)
(* Reconcilers: the key sets (task_generator.py).                          *)
(***************************************************************************)
\* mutant: the wildcard token is taken for a cluster id
DeclaredKeysOf_listed(d) == {Join(d.name, c) : c \in d.cluster_list}

\* the composite keys one definition declares (wildcard rule)
DeclaredKeysOf(d) ==
    IF Wildcard \in d.cluster_list
    THEN {Join(d.name, c) : c \in clusters}
    ELSE {Join(d.name, c) : c \in d.cluster_list}

\* the composite keys observed for one definition's account
ObservedKeysOf(d) ==
    {Join(d.name, k.cluster_id) : k \in Range(find_keys_with_sa(ResourceIdOf(find_sa(d.name))))}

\* CSMAPIKeyTasks.refresh_set_values: what api_keys_in_def becomes
refresh_api_keys_in_def(old) == old \cup UNION {DeclaredKeysOf(d) : d \in decl}
RefreshedKeysInDef == refresh_api_keys_in_def(api_keys_in_def)

\* CSMAPIKeyTasks.refresh_set_values: what api_keys_in_ccloud becomes
refresh_api_keys_in_ccloud(old) == old \cup UNION {ObservedKeysOf(d) : d \in decl}
RefreshedKeysInCCloud == refresh_api_keys_in_ccloud(api_keys_in_ccloud)

\* CSMSecretManagerTasks.refresh_set_values: what definition_rest_proxy_users becomes
refresh_definition_rest_proxy_users(old) ==
    old \cup UNION {DeclaredKeysOf(d) : d \in {x \in decl : x.is_rp_user}}
RefreshedRestProxyUsers == refresh_definition_rest_proxy_users(definition_rest_proxy_users)

\* CSMServiceAccountTasks.refresh_set_values
RefreshedSaInDef == {d.name : d \in decl}
RefreshedSaInCCloud == {item.name : item \in sa}

\* find_sa's result as the argument of a key lookup that expects a resource id
ObjectOf(account) == IF account = NoSa THEN PyNone ELSE PyObj(account)

(***************************************************************************)
(* Tasks (CSMConfigTask).  origin, item, eff and nsets are history: the    *)
(* loop of the generator that yielded the task and the item it was at, the *)
(* outcome of the effector call and the number of set_task_status calls.   *)
(***************************************************************************)
sts_not_started == "Not Started"
sts_in_progress == "In Progress"
sts_success == "Success"
sts_failed == "Failed"

CSMConfigTask(task_type, object_type, task_object, it) ==
    [task_type |-> task_type, object_type |-> object_type, status |-> sts_not_started,
     status_message |-> "Waiting to start", task_object |-> task_object,
     origin |-> it.kind, item |-> it.item, eff |-> "none", nsets |-> 0]

\* set_task_status: status and message overwritten, the payload when one is given
\* mutant: the payload is replaced by whatever is passed
set_task_status_any(t, task_status, status_msg, has_payload, object_payload) ==
    [t EXCEPT !.status = task_status,
              !.status_message = status_msg,
              !.task_object = object_payload,
              !.nsets = @ + 1]

set_task_status(t, task_status, status_msg, has_payload, object_payload) ==
    [t EXCEPT !.status = task_status,
              !.status_message = status_msg,
              !.task_object = IF has_payload THEN object_payload ELSE @,
              !.nsets = @ + 1]

Effect(t, e) == [t EXCEPT !.eff = e]

\* the outcome of an effector call is noted for the caller's sequence of phases
Noted(t) == clean' = (clean /\ (step = 0 \/ t.eff \notin {"fail", "raised"}))

(***************************************************************************)
(* The sets a phase's generator computes when it starts (req).  of and     *)
(* snap are history.                                                       *)
(***************************************************************************)
NoReq == [of |-> "none", snap |-> [sa |-> {}, api_keys |-> <<>>, secrets |-> {}],
          sa_create |-> {}, sa_delete |-> {}, key_create |-> {}, secret_create |-> {},
          secret_update |-> {}, key_orphans |-> {}, key_aged |-> {}, tags |-> {},
          rp_users |-> {}]

\* newreq, with the phase it belongs to and the caches as that phase found them
Stamped(p, newreq) ==
    [newreq EXCEPT !.of = p,
                   !.snap = [sa |-> sa, api_keys |-> api_keys, secrets |-> secrets]]

\* the methods of WorkflowManager, in the order its caller goes through them
PhaseOrder ==
    <<"create_service_accounts", "delete_service_accounts", "create_api_keys",
      "delete_api_keys", "update_api_keys_in_secret_manager",
      "update_tags_in_secret_manager", "update_rest_proxy_api_keys_in_secret_manager">>

Phases == Range(PhaseOrder)

Item(stage, kind, item) == [stage |-> stage, kind |-> kind, item |-> item]

\* the generator resumes its earliest loop that has items left
NextItems == {it \in todo : \A other \in todo : it.stage <= other.stage}

Running(p) == phase = p /\ crashed = "none"

Begin(p, newreq, items) ==
    /\ phase = "idle"
    /\ crashed = "none"
    /\ IF step = 0
       THEN nphases < MaxPhases /\ step' = 0
       ELSE step <= Len(PhaseOrder) /\ PhaseOrder[step] = p /\ step' = step + 1
    /\ phase' = p
    /\ nphases' = nphases + 1
    /\ todo' = items
    /\ cur' = 0
    /\ tasks' = <<>>
    /\ req' = Stamped(p, newreq)
    /\ rerun' = prev[p]
    /\ prev' = [prev EXCEPT ![p] = [valid |-> TRUE, req |-> Stamped(p, newreq)]]
    /\ UNCHANGED clean

\* mutant: the effector is due whatever dry_run says
effector_due_always(n) == n

\* "if not self.dry_run:" - the task whose effector is due after the n-th task was
\* yielded, 0 for none
effector_due(n) == IF cfg.dry_run THEN 0 ELSE n

\* the generator yields a task; the phase calls its effector unless dry_run
Yield(it, t) ==
    /\ tasks' = Append(tasks, t)
    /\ todo' = todo \ {it}
    /\ cur' = effector_due(Len(tasks) + 1)
    /\ UNCHANGED <<crashed>>

\* the generator moves on without yielding
Skip(it) ==
    /\ todo' = todo \ {it}
    /\ UNCHANGED <<tasks, cur, crashed>>

\* an exception escapes the phase and ends the run
Raise(e) ==
    /\ crashed' = e
    /\ UNCHANGED <<todo, tasks, cur>>

Invalid == [p \in Phases |-> [valid |-> FALSE, req |-> NoReq]]

(***************************************************************************)
(* Service accounts: CSMServiceAccountTasks and the two phases of          *)
(* WorkflowManager that consume its generators.                            *)
(***************************************************************************)
\* mutant: the two sets change places
create_service_account_req_swapped(in_def, in_ccloud) ==
    find_items_to_be_created(in_ccloud, in_def)

create_service_account_req(in_def, in_ccloud) ==
    find_items_to_be_created(in_def, in_ccloud)

\* the names of the cached accounts whose resource id is ignore-listed
ignore_sa_names ==
    {item.name : item \in {x \in sa : x.resource_id \in cfg.ignore_service_account_list}}

delete_service_account_req(in_def, in_ccloud) ==
    find_items_to_be_deleted(ignore_sa_names, find_items_to_be_deleted(in_def, in_ccloud))

\* WorkflowManager.create_service_accounts: refresh, then the generator starts
create_service_accounts ==
    LET r == create_service_account_req(RefreshedSaInDef, RefreshedSaInCCloud) IN
    /\ Begin("create_service_accounts", [NoReq EXCEPT !.sa_create = r],
             {Item(1, "sa", n) : n \in r})
    /\ sa_in_def' = RefreshedSaInDef
    /\ sa_in_ccloud' = RefreshedSaInCCloud
    /\ UNCHANGED <<inputs, caches, keysets, secretreqs, crashed, nkeys, ledger>>

\* CSMServiceAccountTasks.create_service_account_tasks: one iteration of its loop
create_service_account_tasks ==
    \E it \in NextItems :
        /\ Running("create_service_accounts")
        /\ cur = 0
        /\ LET d == find_service_account(it.item) IN
           IF d # NoDef
           THEN Yield(it, CSMConfigTask("create", "service-account",
                          [sa_name |-> d.name, description |-> d.description], it))
           ELSE Skip(it)
        /\ UNCHANGED <<inputs, caches, sasets, keysets, secretreqs, phase, req, prev,
                       rerun, run, nkeys, ledger>>

\* CCloudServiceAccountList.create_sa, and what create_service_accounts does with its result
create_sa ==
    \E ok \in BOOLEAN :
        /\ Running("create_service_accounts")
        /\ cur # 0
        /\ LET t == tasks[cur]
               temp == find_sa(t.task_object.sa_name)
               new_sa == Account(t.task_object.sa_name)
           IN
           IF temp # NoSa
           THEN \* found in the cache: (temp, False), and the phase does nothing
                /\ tasks' = [tasks EXCEPT ![cur] = Effect(t, "fail")]
                /\ cur' = 0
                /\ UNCHANGED <<sa, prev, crashed>>
           ELSE IF ok
           THEN \* 201: cached, (sa_value, True)
                /\ sa' = sa \cup {new_sa}
                /\ tasks' = [tasks EXCEPT ![cur] =
                       set_task_status(Effect(t, "ok"), sts_success,
                           "Service Account Creation Succeeded.", TRUE,
                           [sa_id |-> new_sa.resource_id, sa_name |-> new_sa.name])]
                /\ cur' = 0
                /\ prev' = Invalid
                /\ UNCHANGED crashed
           ELSE \* any other response: raise Exception
                /\ tasks' = [tasks EXCEPT ![cur] = Effect(t, "raised")]
                /\ crashed' = "Exception"
                /\ UNCHANGED <<sa, cur, prev>>
        /\ Noted(tasks'[cur])
        /\ UNCHANGED <<inputs, api_keys, secrets, sasets, keysets, secretreqs, phase, todo,
                       req, rerun, nphases, step, nkeys, ledger>>

\* WorkflowManager.delete_service_accounts: refresh, then the generator starts
delete_service_accounts ==
    LET r == delete_service_account_req(RefreshedSaInDef, RefreshedSaInCCloud) IN
    /\ Begin("delete_service_accounts", [NoReq EXCEPT !.sa_delete = r],
             {Item(1, "sa", n) : n \in r})
    /\ sa_in_def' = RefreshedSaInDef
    /\ sa_in_ccloud' = RefreshedSaInCCloud
    /\ UNCHANGED <<inputs, caches, keysets, secretreqs, crashed, nkeys, ledger>>

\* CSMServiceAccountTasks.delete_service_account_tasks: one iteration of its loop
delete_service_account_tasks ==
    \E it \in NextItems :
        /\ Running("delete_service_accounts")
        /\ cur = 0
        /\ LET sa_details == find_sa(it.item) IN
           IF sa_details = NoSa
           THEN Raise("AttributeError: find_sa")
           ELSE Yield(it, CSMConfigTask("delete", "service-account",
                          [sa_name |-> it.item, sa_id |-> sa_details.resource_id], it))
        /\ UNCHANGED <<inputs, caches, sasets, keysets, secretreqs, phase, req, prev,
                       rerun, run, nkeys, ledger>>

\* what the provider answers a DELETE with: 204, or 404 when it no longer has the account
DeleteResponses == {204, 404}

\* CCloudServiceAccountList.delete_sa, and what delete_service_accounts does around it
delete_sa ==
    \E status_code \in DeleteResponses :
        /\ Running("delete_service_accounts")
        /\ cur # 0
        /\ LET t == tasks[cur]
               temp == find_sa(t.task_object.sa_name)
           IN
           IF temp = NoSa
           THEN \* find_sa(...).resource_id on None
                /\ tasks' = [tasks EXCEPT ![cur] = Effect(t, "raised")]
                /\ crashed' = "AttributeError: find_sa"
                /\ UNCHANGED <<sa, cur, prev>>
           ELSE IF status_code = 204
           THEN \* 204: removed from the cache, True
                /\ sa' = sa \ {temp}
                /\ tasks' = [tasks EXCEPT ![cur] =
                       set_task_status(Effect(t, "ok"), sts_success,
                           "Service Account deletion Succeeded.", TRUE,
                           [sa_id |-> temp.resource_id, sa_name |-> t.task_object.sa_name])]
                /\ cur' = 0
                /\ prev' = Invalid
                /\ UNCHANGED crashed
           ELSE \* any other response: raise Exception
                /\ tasks' = [tasks EXCEPT ![cur] = Effect(t, "raised")]
                /\ crashed' = "Exception"
                /\ UNCHANGED <<sa, cur, prev>>
        /\ Noted(tasks'[cur])
        /\ UNCHANGED <<inputs, api_keys, secrets, sasets, keysets, secretreqs, phase, todo,
                       req, rerun, nphases, step, nkeys, ledger>>

(***************************************************************************)
(* API keys: CSMAPIKeyTasks.create_api_key_tasks and create_api_keys.      *)
(***************************************************************************)
\* the composite keys of the entries of the secret store
secrets_in_store == {Join(v.sa_name, v.cluster_id) : v \in secrets}

\* create_api_keys_req before the forced keys are added
base_create_api_keys_req(in_def, in_ccloud) ==
    find_items_to_be_created(in_def, in_ccloud)

\* mutant: the secret store is taken to hold every declared key
new_create_secrets_req_none(in_def) == find_items_to_be_created(in_def, in_def)

\* what create_api_key_tasks assigns to self.create_secrets_req
new_create_secrets_req(in_def) ==
    find_items_to_be_created(in_def, secrets_in_store)

\* mutant: every declared key that has a stored secret gets a secret update
new_update_secrets_req_all_stored(in_def, in_ccloud) == in_def \cap secrets_in_store

\* what create_api_key_tasks assigns to self.update_secrets_req
new_update_secrets_req(in_def, in_ccloud) ==
    base_create_api_keys_req(in_def, in_ccloud) \cap secrets_in_store

\* mutant: no key is forced
force_api_key_create_none(in_def, in_ccloud) == {}

\* keys that exist in the provider while the store has no secret for them
force_api_key_create(in_def, in_ccloud) ==
    find_items_to_be_created(new_create_secrets_req(in_def),
                             base_create_api_keys_req(in_def, in_ccloud))

\* mutant: the forced keys are derived from self.create_secrets_req as the previous
\* pass left it
create_api_keys_req_stale(in_def, in_ccloud) ==
    base_create_api_keys_req(in_def, in_ccloud)
        \cup find_items_to_be_created(create_secrets_req,
                                      base_create_api_keys_req(in_def, in_ccloud))

\* create_api_keys_req after update(force_api_key_create)
create_api_keys_req(in_def, in_ccloud) ==
    base_create_api_keys_req(in_def, in_ccloud) \cup force_api_key_create(in_def, in_ccloud)

\* WorkflowManager.create_api_keys: refresh, then the generator starts
create_api_keys ==
    LET r == create_api_keys_req(RefreshedKeysInDef, RefreshedKeysInCCloud)
        c == new_create_secrets_req(RefreshedKeysInDef)
        u == new_update_secrets_req(RefreshedKeysInDef, RefreshedKeysInCCloud)
    IN
    /\ Begin("create_api_keys",
             [NoReq EXCEPT !.key_create = r, !.secret_create = c, !.secret_update = u],
             {Item(1, "key", k) : k \in r})
    /\ api_keys_in_def' = RefreshedKeysInDef
    /\ api_keys_in_ccloud' = RefreshedKeysInCCloud
    /\ create_secrets_req' = c
    /\ update_secrets_req' = u
    /\ UNCHANGED definition_rest_proxy_users
    /\ UNCHANGED <<inputs, caches, sasets, crashed, nkeys, ledger>>

\* CSMAPIKeyTasks.create_api_key_tasks: one iteration of its loop
create_api_key_tasks ==
    \E it \in NextItems :
        /\ Running("create_api_keys")
        /\ cur = 0
        /\ LET value == Split(it.item)
               sa_name == value[1]
               cluster_details == find_cluster(value[2])
           IN
           IF IsNoCluster(cluster_details)
           THEN Raise("AttributeError: find_cluster")
           ELSE Yield(it, CSMConfigTask("create", "api-key",
                          [sa_name |-> sa_name, cluster_id |-> cluster_details.cluster_id,
                           env_id |-> cluster_details.env_id], it))
        /\ UNCHANGED <<inputs, caches, sasets, keysets, secretreqs, phase, req, prev,
                       rerun, run, nkeys, ledger>>

\* the key cc_api_keys.create_api_key caches when the provider accepts the request
NewApiKey(n, sa_id, cluster_id) ==
    [api_key |-> ProviderKeyId(n), owner_id |-> sa_id, cluster_id |-> cluster_id,
     api_secret |-> TRUE, age |-> 0]

\* cc_api_keys.create_api_key, and what create_api_keys does around it
create_api_key ==
    \E ok \in BOOLEAN :
        /\ Running("create_api_keys")
        /\ cur # 0
        /\ LET t == tasks[cur]
               sa_details == find_sa(t.task_object.sa_name)
               new_api_key == NewApiKey(nkeys + 1, sa_details.resource_id,
                                        t.task_object.cluster_id)
           IN
           IF sa_details = NoSa
           THEN \* sa_details.resource_id on None
                /\ tasks' = [tasks EXCEPT ![cur] = Effect(t, "raised")]
                /\ crashed' = "AttributeError: find_sa"
                /\ UNCHANGED <<api_keys, nkeys, cur, prev>>
           ELSE IF ok
           THEN /\ nkeys < MaxNewKeys
                /\ api_keys' = Append(api_keys, new_api_key)
                /\ nkeys' = nkeys + 1
                /\ tasks' = [tasks EXCEPT ![cur] =
                       set_task_status(Effect(t, "ok"), sts_success,
                           "API Key creation succeeded.", TRUE,
                           [api_key |-> new_api_key.api_key, env_id |-> t.task_object.env_id,
                            cluster_id |-> t.task_object.cluster_id])]
                /\ cur' = 0
                /\ prev' = Invalid
                /\ UNCHANGED crashed
           ELSE \* (None, False): the phase does nothing
                /\ tasks' = [tasks EXCEPT ![cur] = Effect(t, "fail")]
                /\ cur' = 0
                /\ UNCHANGED <<api_keys, nkeys, prev, crashed>>
        /\ Noted(tasks'[cur])
        /\ UNCHANGED <<inputs, sa, secrets, sasets, keysets, secretreqs, phase, todo,
                       req, rerun, nphases, step, ledger>>

(***************************************************************************)
(* API keys: CSMAPIKeyTasks.delete_api_key_tasks and delete_api_keys.      *)
(***************************************************************************)
\* the names of the cached accounts whose resource id is ignore-listed
ignore_sa_list ==
    {v.name : v \in {x \in sa : x.resource_id \in cfg.ignore_service_account_list}}

\* observed but not declared, less the keys of ignored accounts
deletion_eligible_api_keys(in_def, in_ccloud) ==
    {item \in find_items_to_be_deleted(in_def, in_ccloud) :
        Split(item)[1] \notin ignore_sa_list}

\* the key ids the entries of the secret store refer to
curr_secrets == {item.api_key : item \in secrets}

\* mutant: the owner of an old key is not looked at
curr_api_keys_any_owner ==
    {v.api_key : v \in {k \in Range(api_keys) :
        mins_since_api_key_creation(k.api_key) > cfg.old_api_keys_deletion_wait_mins}}

\* mutant: a key as old as the configured wait counts as old
curr_api_keys_at_threshold ==
    {v.api_key : v \in {k \in Range(api_keys) :
        /\ mins_since_api_key_creation(k.api_key) >= cfg.old_api_keys_deletion_wait_mins
        /\ k.owner_id \notin cfg.ignore_service_account_list}}

\* the cached keys older than the configured wait whose owner is not ignored
curr_api_keys ==
    {v.api_key : v \in {k \in Range(api_keys) :
        /\ mins_since_api_key_creation(k.api_key) > cfg.old_api_keys_deletion_wait_mins
        /\ k.owner_id \notin cfg.ignore_service_account_list}}

\* mutant: the stored secrets are not looked at
delete_secret_mismatched_keys_unchecked == curr_api_keys

\* the old keys no stored secret refers to
delete_secret_mismatched_keys == find_items_to_be_deleted(curr_secrets, curr_api_keys)

\* WorkflowManager.delete_api_keys: refresh, then the generator starts
delete_api_keys ==
    LET o == deletion_eligible_api_keys(RefreshedKeysInDef, RefreshedKeysInCCloud)
        a == delete_secret_mismatched_keys
    IN
    /\ Begin("delete_api_keys", [NoReq EXCEPT !.key_orphans = o, !.key_aged = a],
             {Item(1, "orphan", k) : k \in o} \cup {Item(2, "aged", <<k>>) : k \in a})
    /\ api_keys_in_def' = RefreshedKeysInDef
    /\ api_keys_in_ccloud' = RefreshedKeysInCCloud
    /\ UNCHANGED <<inputs, caches, sasets, secretreqs, crashed, nkeys, ledger>>

\* the first loop of delete_api_key_tasks reaches an item: it looks the keys up
\* and will yield one task per key found
delete_api_key_tasks_lookup ==
    \E it \in NextItems :
        /\ Running("delete_api_keys")
        /\ cur = 0
        /\ it.kind = "orphan"
        /\ LET value == Split(it.item)
               sa_id == ObjectOf(find_sa(value[1]))
               found == find_keys_with_sa_and_cluster(sa_id, value[2])
           IN todo' = (todo \ {it}) \cup
                  {Item(0, "orphan_key", it.item \o <<sa_id.val, found[i].api_key>>) :
                      i \in DOMAIN found}
        /\ UNCHANGED <<inputs, caches, sasets, keysets, secretreqs, phase, req, prev,
                       rerun, run, nkeys, ledger, tasks, cur, crashed>>

\* delete_api_key_tasks yields: a key found by its first loop, or an item of its second
delete_api_key_tasks ==
    \E it \in NextItems :
        /\ Running("delete_api_keys")
        /\ cur = 0
        /\ it.kind # "orphan"
        /\ IF it.kind = "orphan_key"
           THEN LET n == Len(it.item)
                    value == Split(SubSeq(it.item, 1, n - 2))
                IN
                Yield(it, CSMConfigTask("delete", "api-key",
                          [sa_name |-> value[1], sa_id |-> it.item[n - 1],
                           cluster_id |-> value[2], api_key |-> it.item[n]], it))
           ELSE LET api_key_details == api_keys_get(it.item[1])
                    sa_details == sa_get(api_key_details.owner_id)
                IN
                IF api_key_details = NoKey
                THEN Skip(it)
                ELSE IF sa_details = NoSa
                THEN Raise("AttributeError: sa.get")
                ELSE Yield(it, CSMConfigTask("delete", "api-key",
                               [sa_name |-> sa_details.name, sa_id |-> sa_details.resource_id,
                                cluster_id |-> api_key_details.cluster_id,
                                api_key |-> api_key_details.api_key], it))
        /\ UNCHANGED <<inputs, caches, sasets, keysets, secretreqs, phase, req, prev,
                       rerun, run, nkeys, ledger>>

\* cc_api_keys.delete_api_key, and what delete_api_keys does with its result
delete_api_key ==
    \E ok \in BOOLEAN :
        /\ Running("delete_api_keys")
        /\ cur # 0
        /\ LET t == tasks[cur]
               Others(k) == k.api_key # t.task_object.api_key
           IN
           IF ok
           THEN /\ api_keys' = SelectSeq(api_keys, Others)
                /\ tasks' = [tasks EXCEPT ![cur] =
                       set_task_status(Effect(t, "ok"), sts_success,
                           "API Key deletion succeeded.", TRUE, t.task_object)]
                /\ prev' = Invalid
           ELSE /\ tasks' = [tasks EXCEPT ![cur] = Effect(t, "fail")]
                /\ UNCHANGED <<api_keys, prev>>
        /\ cur' = 0
        /\ Noted(tasks'[cur])
        /\ UNCHANGED <<inputs, sa, secrets, sasets, keysets, secretreqs, phase, todo,
                       req, rerun, crashed, nphases, step, nkeys, ledger>>

(***************************************************************************)
(* Secrets: CSMSecretManagerTasks.create_secret_tasks / update_secret_tasks *)
(* and update_api_keys_in_secret_manager.                                  *)
(***************************************************************************)
\* WorkflowManager.update_api_keys_in_secret_manager: refresh_set_values takes the two
\* sets of the API-key reconciler; the chained generators start
update_api_keys_in_secret_manager ==
    /\ Begin("update_api_keys_in_secret_manager",
             [NoReq EXCEPT !.secret_create = create_secrets_req,
                           !.secret_update = update_secrets_req],
             {Item(1, "secret_create", k) : k \in create_secrets_req}
                 \cup {Item(2, "secret_update", k) : k \in update_secrets_req})
    /\ definition_rest_proxy_users' = RefreshedRestProxyUsers
    /\ UNCHANGED <<inputs, caches, sasets, keysets, create_secrets_req, update_secrets_req,
                   crashed, nkeys, ledger>>

\* the payload of a secret task
secret_task_object(sa_name, cluster_id, cluster_details, sa_definition) ==
    [sa_name |-> sa_name, cluster_id |-> cluster_id, env_id |-> cluster_details.env_id,
     need_rp_access |-> sa_definition.rp_access, is_rp_user |-> sa_definition.is_rp_user]

\* create_secret_tasks / update_secret_tasks: one iteration of the loop
secret_tasks ==
    \E it \in NextItems :
        /\ Running("update_api_keys_in_secret_manager")
        /\ cur = 0
        /\ LET value == Split(it.item)
               cluster_details == find_cluster(value[2])
               sa_definition == find_service_account(value[1])
           IN
           IF IsNoCluster(cluster_details)
           THEN Raise("AttributeError: find_cluster")
           ELSE IF sa_definition = NoDef
           THEN Raise("AttributeError: find_service_account")
           ELSE Yield(it, CSMConfigTask(
                          IF it.kind = "secret_create" THEN "create" ELSE "update",
                          "secrets-store",
                          secret_task_object(value[1], value[2], cluster_details,
                                             sa_definition), it))
        /\ UNCHANGED <<inputs, caches, sasets, keysets, secretreqs, phase, req, prev,
                       rerun, run, nkeys, ledger>>

HasSecret(k) == k.api_secret

\* secret_bundle.create_or_update_secret(api_key): the entry it stores and returns
StoredSecret(sa_name, api_key, rp_access) ==
    [secret_name |-> Join(sa_name, api_key.cluster_id), sa_name |-> sa_name,
     cluster_id |-> api_key.cluster_id, api_key |-> api_key.api_key,
     rp_access |-> IF rp_access THEN "True" ELSE "False",
     sync_needed_for_rp |-> IF rp_access THEN "True" ELSE "False"]

create_or_update_secret(store, entry) ==
    {x \in store : x.secret_name # entry.secret_name} \cup {entry}

\* the body of update_api_keys_in_secret_manager's loop for one task
create_or_update_secrets ==
    /\ Running("update_api_keys_in_secret_manager")
    /\ cur # 0
    /\ LET t == tasks[cur]
           sa_details == find_sa(t.task_object.sa_name)
           api_key_details == find_keys_with_sa_and_cluster(
                                  PyStr(sa_details.resource_id), t.task_object.cluster_id)
           with_secret == SelectSeq(api_key_details, HasSecret)
           n == Len(with_secret)
           resp == StoredSecret(sa_details.name, with_secret[n], t.task_object.need_rp_access)
       IN
       IF sa_details = NoSa
       THEN \* sa_details.resource_id on None
            /\ tasks' = [tasks EXCEPT ![cur] = Effect(t, "raised")]
            /\ crashed' = "AttributeError: find_sa"
            /\ UNCHANGED <<secrets, cur, prev>>
       ELSE IF n = 0
       THEN \* no key of this run for the slot: nothing is stored, no status is set
            /\ tasks' = [tasks EXCEPT ![cur] = Effect(t, "skipped")]
            /\ cur' = 0
            /\ UNCHANGED <<secrets, prev, crashed>>
       ELSE \* one upsert and one set_task_status per key that carries its secret
            /\ secrets' = create_or_update_secret(secrets, resp)
            /\ tasks' = [tasks EXCEPT ![cur] =
                   [set_task_status(Effect(t, "ok"), sts_success,
                        "Secret Updated Successfully", TRUE,
                        [secret_name |-> resp.secret_name, sa_name |-> resp.sa_name,
                         sa_id |-> sa_details.resource_id, cluster_id |-> resp.cluster_id,
                         api_key |-> resp.api_key])
                    EXCEPT !.nsets = n]]
            /\ cur' = 0
            /\ prev' = Invalid
            /\ UNCHANGED crashed
    /\ Noted(tasks'[cur])
    /\ UNCHANGED <<inputs, sa, api_keys, sasets, keysets, secretreqs, phase, todo,
                   req, rerun, nphases, step, nkeys, ledger>>

(***************************************************************************)
(* Secret tags and rest-proxy secrets: update_tags_in_secret_manager and   *)
(* update_rest_proxy_api_keys_in_secret_manager.  The tags a secret        *)
(* carries are strings when they were read from the store and Python bools *)
(* when update_tags_in_secret_manager assigned them.                       *)
(***************************************************************************)
StrOf(b) == IF b THEN "True" ELSE "False"
BoolOf(b) == IF b THEN "True (bool)" ELSE "False (bool)"
Truth(tag) == tag \in {StrOf(TRUE), BoolOf(TRUE)}

\* the secrets whose stored rest_proxy_access differs from their account's declared flag
tags_req ==
    {v.secret_name : v \in {x \in secrets :
        /\ find_service_account(x.sa_name) # NoDef
        /\ find_service_account(x.sa_name).rp_access # Truth(x.rp_access)}}

\* secret_bundle.secret[secret_name]
secret_get(secret_name) == CHOOSE v \in secrets : v.secret_name = secret_name

\* WorkflowManager.update_tags_in_secret_manager: refresh, then the generator starts
update_tags_in_secret_manager ==
    /\ Begin("update_tags_in_secret_manager", [NoReq EXCEPT !.tags = tags_req],
             {Item(1, "tags", n) : n \in tags_req})
    /\ definition_rest_proxy_users' = RefreshedRestProxyUsers
    /\ UNCHANGED <<inputs, caches, sasets, keysets, create_secrets_req, update_secrets_req,
                   crashed, nkeys, ledger>>

\* update_secret_tags_tasks: one iteration of its loop
update_secret_tags_tasks ==
    \E it \in NextItems :
        /\ Running("update_tags_in_secret_manager")
        /\ cur = 0
        /\ Yield(it, CSMConfigTask("update", "secrets-store",
                     [secret_name |-> it.item,
                      rest_proxy_access |->
                          BoolOf(find_service_account(secret_get(it.item).sa_name).rp_access)],
                     it))
        /\ UNCHANGED <<inputs, caches, sasets, keysets, secretreqs, phase, req, prev,
                       rerun, run, nkeys, ledger>>

\* the body of update_tags_in_secret_manager's loop for one task: add_tags, the cached
\* record's two flags, set_task_status
add_tags ==
    /\ Running("update_tags_in_secret_manager")
    /\ cur # 0
    /\ LET t == tasks[cur]
           secret_details == secret_get(t.task_object.secret_name)
       IN
       /\ secrets' = (secrets \ {secret_details}) \cup
              {[secret_details EXCEPT !.sync_needed_for_rp = BoolOf(TRUE),
                                      !.rp_access = t.task_object.rest_proxy_access]}
       /\ tasks' = [tasks EXCEPT ![cur] =
              set_task_status(Effect(t, "ok"), sts_success,
                  "Secret Tags Updated Successfully", TRUE, t.task_object)]
    /\ cur' = 0
    /\ prev' = Invalid
    /\ Noted(tasks'[cur])
    /\ UNCHANGED <<inputs, sa, api_keys, sasets, keysets, secretreqs, phase, todo,
                   req, rerun, crashed, nphases, step, nkeys, ledger>>

\* the name of the rest-proxy secret of a member, as _get_rest_proxy_user derives it
rp_secret_name_of(sa_name, cluster_id) == <<"rest-proxy">> \o <<Tilde>> \o Join(sa_name, cluster_id)

\* secret_bundle._get_new_rest_proxy_api_keys(): the keys created in this run, which
\* are the ones that carry their secret
get_new_rest_proxy_api_keys == {k \in Range(api_keys) : HasSecret(k)}

\* objects held in a task's payload; a str is never equal to one of them
KeyObj(k) == [type |-> "CCloudAPIKey", val |-> k.api_key]
SecretObj(v) == [type |-> "CSMSecret", val |-> v.secret_name]

\* WorkflowManager.update_rest_proxy_api_keys_in_secret_manager: refresh, then the
\* generator starts
update_rest_proxy_api_keys_in_secret_manager ==
    /\ Begin("update_rest_proxy_api_keys_in_secret_manager",
             [NoReq EXCEPT !.rp_users = RefreshedRestProxyUsers],
             {Item(1, "rp", k) : k \in RefreshedRestProxyUsers})
    /\ definition_rest_proxy_users' = RefreshedRestProxyUsers
    /\ UNCHANGED <<inputs, caches, sasets, keysets, create_secrets_req, update_secrets_req,
                   crashed, nkeys, ledger>>

\* mutant: a task for every member
rp_upsert_due_always(current_run_api_keys, current_secrets_with_rp_access) == TRUE

\* "if current_run_api_keys or current_secrets_with_rp_access:"
rp_upsert_due(current_run_api_keys, current_secrets_with_rp_access) ==
    current_run_api_keys # {} \/ current_secrets_with_rp_access # {}

\* CSMSecretManagerTasks.upsert_rest_proxy_secret_tasks: one iteration of its loop
upsert_rest_proxy_secret_tasks ==
    \E it \in NextItems :
        /\ Running("update_rest_proxy_api_keys_in_secret_manager")
        /\ cur = 0
        /\ LET value == Split(it.item)
               sa_name == value[1]
               cluster_id == value[2]
               secret_name == rp_secret_name_of(sa_name, cluster_id)
               current_run_api_keys ==
                   {k \in get_new_rest_proxy_api_keys : k.cluster_id = cluster_id}
               current_secrets_with_rp_access ==
                   {v \in secrets : v.rp_access = "True" /\ v.sync_needed_for_rp = "True"}
           IN
           IF rp_upsert_due(current_run_api_keys, current_secrets_with_rp_access)
           THEN Yield(it, CSMConfigTask(
                          IF \E v \in secrets : v.secret_name = secret_name
                          THEN "update" ELSE "create",
                          "rest-proxy-user",
                          [sa_name |-> sa_name, rp_secret_name |-> secret_name,
                           sa_details |-> find_sa(sa_name),
                           cluster_details |-> find_cluster(cluster_id),
                           api_keys |-> {KeyObj(k) : k \in current_run_api_keys},
                           secrets_with_rp_access |->
                               {SecretObj(v) : v \in current_secrets_with_rp_access}], it))
           ELSE Skip(it)
        /\ UNCHANGED <<inputs, caches, sasets, keysets, secretreqs, phase, req, prev,
                       rerun, run, nkeys, ledger>>

\* what create_update_rest_proxy_secrets stores under rp_secret_name
RestProxySecret(t, new_api_keys, secrets_with_rp_access) ==
    [secret_name |-> t.rp_secret_name, sa_name |-> t.sa_name,
     cluster_id |-> t.cluster_details.cluster_id, api_key |-> None,
     rp_access |-> StrOf(FALSE), sync_needed_for_rp |-> StrOf(FALSE)]

\* the body of update_rest_proxy_api_keys_in_secret_manager's loop for one task
create_update_rest_proxy_secrets ==
    /\ Running("update_rest_proxy_api_keys_in_secret_manager")
    /\ cur # 0
    /\ LET t == tasks[cur]
           new_api_keys ==
               {v \in Range(api_keys) : PyStr(v.api_key) \in t.task_object.api_keys}
           secrets_with_rp_access ==
               {v \in secrets : PyStr(v.secret_name) \in t.task_object.secrets_with_rp_access}
       IN
       /\ secrets' = create_or_update_secret(secrets,
              RestProxySecret(t.task_object, new_api_keys, secrets_with_rp_access))
       /\ tasks' = [tasks EXCEPT ![cur] =
              set_task_status(Effect(t, "ok"), sts_success,
                  "REST Proxy Secret Updated Successfully", TRUE,
                  [rp_secret_name |-> t.task_object.rp_secret_name,
                   api_keys |-> t.task_object.api_keys,
                   secrets_with_rp_access |-> t.task_object.secrets_with_rp_access])]
    /\ cur' = 0
    /\ prev' = Invalid
    /\ Noted(tasks'[cur])
    /\ UNCHANGED <<inputs, sa, api_keys, sasets, keysets, secretreqs, phase, todo,
                   req, rerun, crashed, nphases, step, nkeys, ledger>>

\* the generator is exhausted: the method returns
Return ==
    /\ phase \in Phases
    /\ crashed = "none"
    /\ todo = {}
    /\ cur = 0
    /\ phase' = "idle"
    /\ UNCHANGED <<inputs, caches, sasets, keysets, secretreqs, todo, cur, tasks, req,
                   prev, rerun, crashed, run, nkeys, ledger>>

(***************************************************************************)
(* helpers.py.  A value is absent when Python takes it for false: None or  *)
(* the empty string.                                                       *)
(***************************************************************************)
NoCall == [fn |-> "none", key1Value |-> None, key2Value |-> None, outcome |-> "none"]

Truthy(value) == value \notin {None, ""}

\* helpers.check_pair: "raised" when its condition holds, "returned" otherwise
check_pair(key1Value, key2Value) ==
    IF \/ (Truthy(key1Value) /\ ~Truthy(key2Value))
       \/ (~Truthy(key1Value) /\ Truthy(key2Value))
       \/ (~Truthy(key1Value) /\ ~Truthy(key2Value))
    THEN "raised"
    ELSE "returned"

\* the pending call of check_pair is made
check_pair_call ==
    /\ call.fn = "check_pair"
    /\ call.outcome = "pending"
    /\ call' = [call EXCEPT !.outcome = check_pair(call.key1Value, call.key2Value)]
    /\ UNCHANGED <<decl, cfg, clusters, pages, caches, sasets, keysets, secretreqs, phase,
                   todo, cur, tasks, req, prev, rerun, crashed, run, nkeys, ledger>>

(***************************************************************************)
(* CCloudServiceAccountList.read_all_sa: the cache of service accounts is  *)
(* filled from the provider's answer, page by page.  A name is a sequence  *)
(* of tokens; a provider-managed name starts with the token of its prefix. *)
(***************************************************************************)
ConnectPrefix == <<"Connect.lcc-">>
KsqlPrefix == <<"KSQL.lksqlc-">>

\* str.startswith
startswith(str, prefix) ==
    Len(str) >= Len(prefix) /\ SubSeq(str, 1, Len(prefix)) = prefix

\* mutant: no name is taken for a provider-managed one
try_detect_internal_service_accounts_never(sa_name) == FALSE

try_detect_internal_service_accounts(sa_name) ==
    startswith(sa_name, ConnectPrefix) \/ startswith(sa_name, KsqlPrefix)

\* an entry of out_json["data"]
ProviderItem(id, display_name) == [id |-> id, display_name |-> display_name]

\* the entry is detected as an internal account
detected(item) ==
    /\ cfg.detect_ignore_ccloud_internal_accounts
    /\ try_detect_internal_service_accounts(item.display_name)

is_in_ignored_list(item) ==
    item.id \in cfg.ignore_service_account_list \/ detected(item)

\* the CCloudServiceAccount that is cached for an entry
CachedAccount(item) ==
    [resource_id |-> item.id, name |-> item.display_name,
     is_ignored |-> is_in_ignored_list(item)]

\* what the provider answers the GET with
ReadResponses == {200, 401}

\* read_all_sa: one GET and the loop over the entries of its page
read_all_sa ==
    \E status_code \in ReadResponses :
        /\ phase = "read_all_sa"
        /\ crashed = "none"
        /\ pages # <<>>
        /\ IF status_code = 200
           THEN LET data == Range(Head(pages)) IN
                /\ sa' = {x \in sa : x.resource_id \notin {item.id : item \in data}}
                             \cup {CachedAccount(item) : item \in data}
                /\ cfg' = [cfg EXCEPT !.ignore_service_account_list =
                               @ \cup {item.id : item \in {x \in data : detected(x)}}]
                /\ pages' = Tail(pages)
                /\ IF Tail(pages) # <<>>
                   THEN \* "next" in the metadata: self.read_all_sa(params), without
                        \* its csm_bundle argument
                        /\ crashed' = "TypeError: read_all_sa"
                        /\ UNCHANGED phase
                   ELSE \* the cache is read: the WorkflowManager can be constructed
                        /\ phase' = "__post_init__"
                        /\ UNCHANGED crashed
           ELSE /\ crashed' = "Exception"
                /\ UNCHANGED <<sa, cfg, pages, phase>>
        /\ UNCHANGED <<decl, clusters, call, api_keys, secrets, sasets, keysets, secretreqs,
                       todo, cur, tasks, req, prev, rerun, run, nkeys, ledger>>

\* WorkflowManager.__post_init__: the three reconcilers are constructed, and each
\* constructor calls its refresh_set_values; the secrets reconciler takes the two sets
\* of the API-key reconciler as they are
post_init ==
    /\ phase = "__post_init__"
    /\ crashed = "none"
    /\ sa_in_def' = RefreshedSaInDef
    /\ sa_in_ccloud' = RefreshedSaInCCloud
    /\ api_keys_in_def' = RefreshedKeysInDef
    /\ api_keys_in_ccloud' = RefreshedKeysInCCloud
    /\ definition_rest_proxy_users' = RefreshedRestProxyUsers
    /\ phase' = "idle"
    /\ UNCHANGED <<inputs, caches, create_secrets_req, update_secrets_req, todo, cur, tasks,
                   req, prev, rerun, crashed, run, nkeys, ledger>>

(***************************************************************************)
(* The state after construction.  The inputs are drawn from small sets:    *)
(* svc-a is declared on lkc-1 or on every cluster, svc-b is declared on    *)
(* lkc-2 or not at all, lkc-2 is a known cluster or not; the ignore list   *)
(* names svc-a's id or the id of an account that is not declared; the      *)
(* provider                                                                *)
(* holds svc-a and/or an account that is not declared, and up to four      *)
(* keys read without their secrets, two of them in one slot; the store     *)
(* holds nothing, or a secret of svc-a's slot that refers to its key or to *)
(* a key the provider no longer has.                                       *)
(***************************************************************************)
Declarations ==
    {{SaDef(SvcA, {Lkc1})}, {SaDef(SvcA, {Wildcard})},
     {SaDef(SvcA, {Lkc1}), SaDef(SvcB, {Lkc2})}}

KeyLists ==
    {k1 \o k23 :
        k1 \in {<<>>, <<ApiKey("k-1", "sa-1", Lkc1, 60)>>, <<ApiKey("k-1", "sa-1", Lkc1, 61)>>},
        k23 \in {<<>>, <<ApiKey("k-2", "sa-3", Lkc1, 61), ApiKey("k-3", "sa-1", Lkc2, 61)>>}}
    \cup {<<ApiKey("k-1", "sa-1", Lkc1, 61), ApiKey("k-4", "sa-1", Lkc1, 61)>>}

Constructed(declarations, dry_runs, cleanups, first_step) ==
    /\ decl \in declarations
    /\ clusters \in {{Lkc1}, {Lkc1, Lkc2}}
    /\ pages = <<>>
    /\ call = NoCall
    /\ cfg \in [ignore_service_account_list : {{"sa-3"}, {"sa-1"}},
                detect_ignore_ccloud_internal_accounts : {FALSE},
                old_api_keys_deletion_wait_mins : {60},
                dry_run : dry_runs,
                enable_sa_cleanup : cleanups]
    /\ sa \in SUBSET {Account(SvcA), Account(OldSa)}
    /\ api_keys \in KeyLists
    /\ secrets \in {{}, {Secret(SvcA, Lkc1, "k-1")}, {Secret(SvcA, Lkc1, "k-0")}}
    /\ sa_in_def = RefreshedSaInDef
    /\ sa_in_ccloud = RefreshedSaInCCloud
    /\ api_keys_in_def = refresh_api_keys_in_def({})
    /\ api_keys_in_ccloud = refresh_api_keys_in_ccloud({})
    /\ create_secrets_req = {}
    /\ update_secrets_req = {}
    /\ definition_rest_proxy_users = refresh_definition_rest_proxy_users({})
    /\ phase = "idle"
    /\ todo = {}
    /\ cur = 0
    /\ tasks = <<>>
    /\ req = NoReq
    /\ prev = Invalid
    /\ rerun = [valid |-> FALSE, req |-> NoReq]
    /\ crashed = "none"
    /\ nphases = 0
    /\ step = first_step
    /\ clean = TRUE
    /\ nkeys = 0
    /\ ledger = <<>>

\* WorkflowManager constructed; the caller of delete_service_accounts has cleanup enabled
Init == Constructed(Declarations, BOOLEAN, {TRUE}, 0)

Next ==
    \/ create_service_accounts
    \/ create_service_account_tasks
    \/ create_sa
    \/ delete_service_accounts
    \/ delete_service_account_tasks
    \/ delete_sa
    \/ create_api_keys
    \/ create_api_key_tasks
    \/ create_api_key
    \/ delete_api_keys
    \/ delete_api_key_tasks_lookup
    \/ delete_api_key_tasks
    \/ delete_api_key
    \/ update_api_keys_in_secret_manager
    \/ secret_tasks
    \/ create_or_update_secrets
    \/ Return

Spec == Init /\ [][Next]_vars

(***************************************************************************)
(* The task ledger of config_store.py: CSMConfigDataMap.                   *)
(***************************************************************************)
\* the orders in which a loop may iterate over a set
Orders(S) ==
    {o \in [1..Cardinality(S) -> S] : \A i, j \in 1..Cardinality(S) : i # j => o[i] # o[j]}

Min(S) == CHOOSE x \in S : \A y \in S : x <= y

\* the tasks a loop adds before an iteration in Bad raises, and whether one does
LoopResult(order, Bad, task_at) ==
    LET stop == IF Bad = {} THEN Len(order) + 1 ELSE Min(Bad) IN
    [tasks |-> [i \in 1..(stop - 1) |-> task_at[i]], raised |-> Bad # {}]

\* populate_service_account_tasks: the three sets it derives
rp_create_req ==
    {v.name : v \in {d \in decl : d.is_rp_user}} \ {v.name : v \in sa}
non_rp_create_req ==
    {v.name : v \in {d \in decl : ~d.is_rp_user}} \ {v.name : v \in sa}
delete_req == {v.name : v \in sa} \ {v.name : v \in decl}

\* populate_service_account_tasks: the tasks it adds, the loops iterating in these orders
populate_service_account_tasks(rp_order, non_rp_order, delete_order) ==
    LET Create(order) ==
            [i \in DOMAIN order |->
                CSMConfigTask("create", "service-account",
                    [sa_name |-> find_service_account(order[i]).name,
                     description |-> find_service_account(order[i]).description],
                    Item(1, "sa", order[i]))]
        Delete(order) ==
            [i \in DOMAIN order |->
                CSMConfigTask("delete", "service-account", [sa_name |-> order[i]],
                    Item(1, "sa", order[i]))]
    IN Create(rp_order) \o Create(non_rp_order)
         \o (IF cfg.enable_sa_cleanup THEN Delete(delete_order) ELSE <<>>)

\* populate_api_key_tasks: its local key sets, built from empty sets
local_api_keys_in_def == UNION {DeclaredKeysOf(d) : d \in decl}
local_api_keys_in_ccloud == UNION {ObservedKeysOf(d) : d \in decl}
local_create_secrets_req == local_api_keys_in_def \ secrets_in_store
local_update_secrets_req ==
    (local_api_keys_in_def \ local_api_keys_in_ccloud) \cap secrets_in_store
local_create_api_keys_req ==
    (local_api_keys_in_def \ local_api_keys_in_ccloud)
        \cup (local_create_secrets_req \ (local_api_keys_in_def \ local_api_keys_in_ccloud))

\* populate_api_key_tasks: the tasks it adds, and whether it raises
populate_api_key_tasks(order) ==
    LET TaskAt(i) ==
            LET value == Split(order[i])
                cluster_details == find_cluster(value[2])
            IN CSMConfigTask("create", "api-key",
                   [sa_name |-> value[1], cluster_id |-> cluster_details.cluster_id,
                    env_id |-> cluster_details.env_id], Item(1, "key", order[i]))
    IN LoopResult(order, {i \in DOMAIN order : IsNoCluster(find_cluster(Split(order[i])[2]))},
                  [i \in DOMAIN order |-> TaskAt(i)])

\* populate_secrets_tasks: the tasks it adds, and whether it raises.  The second loop
\* reads sa_definition, which only the first loop assigns.
populate_secrets_tasks(create_order, update_order) ==
    LET CreateAt(i) ==
            LET value == Split(create_order[i]) IN
            CSMConfigTask("create", "secrets-store",
                secret_task_object(value[1], value[2], find_cluster(value[2]),
                                   find_service_account(value[1])),
                Item(1, "secret_create", create_order[i]))
        created == LoopResult(create_order,
                       {i \in DOMAIN create_order :
                           IsNoCluster(find_cluster(Split(create_order[i])[2]))},
                       [i \in DOMAIN create_order |-> CreateAt(i)])
        unbound == Len(create_order) = 0
        sa_definition ==
            IF unbound THEN NoDef
            ELSE find_service_account(Split(create_order[Len(create_order)])[1])
        UpdateAt(i) ==
            LET value == Split(update_order[i]) IN
            CSMConfigTask("update", "secrets-store",
                secret_task_object(value[1], value[2], find_cluster(value[2]), sa_definition),
                Item(2, "secret_update", update_order[i]))
        updated == LoopResult(update_order,
                       {i \in DOMAIN update_order :
                           unbound \/ IsNoCluster(find_cluster(Split(update_order[i])[2]))},
                       [i \in DOMAIN update_order |-> UpdateAt(i)])
    IN IF created.raised THEN created
       ELSE [tasks |-> created.tasks \o updated.tasks, raised |-> updated.raised]

\* mutant: new tasks are put in front of the ones the map holds
add_new_tasks_front(map, new) == new \o map

\* add_new_task, once per new task: each is stored under the key len(self.tasks)
add_new_tasks(map, new) == map \o new

\* mutant: API keys and secrets are managed whatever the flag says
api_management_due_always(is_api_mgmt_disabled) == TRUE

\* "if not is_api_mgmt_disabled:"
api_management_due(is_api_mgmt_disabled) == ~is_api_mgmt_disabled

\* populate_data_map: service accounts, then API keys and secrets unless disabled
populate_data_map ==
    \E is_api_mgmt_disabled \in BOOLEAN :
    \E rp_order \in Orders(rp_create_req), non_rp_order \in Orders(non_rp_create_req),
       delete_order \in Orders(delete_req), key_order \in Orders(local_create_api_keys_req),
       create_order \in Orders(local_create_secrets_req),
       update_order \in Orders(local_update_secrets_req) :
        LET sa_tasks == populate_service_account_tasks(rp_order, non_rp_order, delete_order)
            key_tasks == populate_api_key_tasks(key_order)
            sec_tasks == populate_secrets_tasks(create_order, update_order)
        IN
        /\ Len(ledger) = 0
        /\ nphases < MaxPhases
        /\ crashed = "none"
        /\ phase # "read_all_sa"
        /\ IF ~api_management_due(is_api_mgmt_disabled)
           THEN /\ ledger' = add_new_tasks(ledger, sa_tasks)
                /\ UNCHANGED crashed
           ELSE IF key_tasks.raised
           THEN /\ ledger' = add_new_tasks(add_new_tasks(ledger, sa_tasks), key_tasks.tasks)
                /\ crashed' = "AttributeError: find_cluster"
           ELSE /\ ledger' = add_new_tasks(add_new_tasks(add_new_tasks(ledger, sa_tasks),
                                                         key_tasks.tasks), sec_tasks.tasks)
                /\ crashed' = IF sec_tasks.raised THEN "populate_secrets_tasks" ELSE "none"
        /\ nphases' = nphases + 1
        /\ call' = [fn |-> "populate_data_map", is_api_mgmt_disabled |-> is_api_mgmt_disabled,
                    outcome |-> IF crashed' = "none" THEN "returned" ELSE "raised"]
        /\ UNCHANGED <<step, clean, decl, cfg, clusters, pages, caches, sasets, keysets,
                       secretreqs, phase, todo, cur, tasks, req, prev, rerun, nkeys>>

\* CSMConfigDataMap.select_new_tasks
select_new_tasks == {k \in DOMAIN ledger : ledger[k].status = sts_not_started}

\* the caller takes the first task select_new_tasks yields and records its outcome
\* with set_task_status
\* the dict {}
EmptyDict == [k \in {} |-> None]

\* "if object_payload:"
payload_given(object_payload) == object_payload # PyNone /\ DOMAIN object_payload # {}

\* CSMConfigDataMap.set_task_status, called with nothing for object_payload (the default
\* None), with {} or with a dict; the call is recorded with its arguments
ledger_set_task_status ==
    \E task_key \in select_new_tasks, task_status \in {sts_success, sts_failed},
       object_payload \in {PyNone, EmptyDict, [result |-> "id"]} :
        /\ crashed = "none"
        /\ task_key = Min(select_new_tasks)
        /\ Cardinality(DOMAIN ledger \ select_new_tasks) < MaxSets
        /\ ledger' = [ledger EXCEPT ![task_key] =
               set_task_status(@, task_status, "done", payload_given(object_payload),
                               object_payload)]
        /\ call' = [fn |-> "set_task_status", task_key |-> task_key,
                    task_status |-> task_status, status_msg |-> "done",
                    object_payload |-> object_payload, outcome |-> "returned"]
        /\ UNCHANGED <<decl, cfg, clusters, pages, caches, sasets, keysets, secretreqs, phase,
                       todo, cur, tasks, req, prev, rerun, crashed, run, nkeys>>

\* the ledger of a constructed CSMConfigDataMap is empty
\* declarations with a rest-proxy user and an account that is given rest-proxy access
RunDeclarations ==
    {{SaDef(SvcA, {Lkc1})},
     {[SaDef(SvcA, {Lkc1}) EXCEPT !.rp_access = TRUE],
      [SaDef(SvcB, {Wildcard}) EXCEPT !.is_rp_user = TRUE]}}

LedgerInit == Constructed(Declarations, {TRUE}, BOOLEAN, 0)

LedgerNext == populate_data_map \/ ledger_set_task_status

LedgerSpec == LedgerInit /\ [][LedgerNext]_vars

\* the ledger over declarations whose accounts differ in their rest-proxy flags
LedgerRpInit == Constructed(RunDeclarations, {TRUE}, BOOLEAN, 0)

LedgerRpSpec == LedgerRpInit /\ [][LedgerNext]_vars

(***************************************************************************)
(* WorkflowManager.delete_service_accounts called whatever the value of    *)
(* enable_sa_cleanup is.                                                   *)
(***************************************************************************)
SaCleanupInit == Constructed(Declarations, BOOLEAN, BOOLEAN, 0)

SaCleanupNext ==
    \/ delete_service_accounts
    \/ delete_service_account_tasks
    \/ delete_sa
    \/ Return

SaCleanupSpec == SaCleanupInit /\ [][SaCleanupNext]_vars

(***************************************************************************)
(* The state in which nothing has been read or reconciled yet.             *)
(***************************************************************************)
Fresh ==
    /\ secrets = {}
    /\ sa_in_def = {}
    /\ sa_in_ccloud = {}
    /\ api_keys_in_def = {}
    /\ api_keys_in_ccloud = {}
    /\ create_secrets_req = {}
    /\ update_secrets_req = {}
    /\ definition_rest_proxy_users = {}
    /\ todo = {}
    /\ cur = 0
    /\ tasks = <<>>
    /\ req = NoReq
    /\ prev = Invalid
    /\ rerun = [valid |-> FALSE, req |-> NoReq]
    /\ crashed = "none"
    /\ nphases = 0
    /\ step = 0
    /\ clean = TRUE
    /\ nkeys = 0
    /\ ledger = <<>>

(***************************************************************************)
(* The service accounts are read and the WorkflowManager is constructed,   *)
(* then one of its delete phases is called; or the ledger is populated     *)
(* once the service accounts are read.  The provider                       *)
(* holds no API key, a new key of svc-a on a cluster that is not declared  *)
(* for it, or that key grown old beside a new one on the declared cluster, *)
(* and a subset of these accounts: the                                     *)
(* declared svc-a, an account that is not declared, a connector's and a    *)
(* ksqlDB cluster's account, and an account whose name only contains a     *)
(* prefix; it answers with one page, or with two.                          *)
(***************************************************************************)
ProviderItems ==
    <<ProviderItem("sa-1", SvcA), ProviderItem("sa-3", OldSa),
      ProviderItem("sa-4", ConnectPrefix \o <<"x1">>),
      ProviderItem("sa-5", KsqlPrefix \o <<"y1">>),
      ProviderItem("sa-6", <<"my-">> \o ConnectPrefix \o <<"x1">>)>>

\* one page with the entries of a subset of ProviderItems in their order, or two pages
ProviderPages ==
    LET PageOf(S) == LET In(item) == item \in S IN SelectSeq(ProviderItems, In) IN
    {<<PageOf(S)>> : S \in SUBSET Range(ProviderItems)}
        \cup {<<PageOf({ProviderItems[1], ProviderItems[3]}),
                PageOf({ProviderItems[2], ProviderItems[4]})>>}

ReadInit ==
    /\ decl = {SaDef(SvcA, {Lkc1})}
    /\ clusters = {Lkc1}
    /\ cfg \in [ignore_service_account_list : {{"sa-3"}, {"sa-4"}},
                detect_ignore_ccloud_internal_accounts : BOOLEAN,
                old_api_keys_deletion_wait_mins : {60},
                dry_run : BOOLEAN,
                enable_sa_cleanup : {TRUE}]
    /\ pages \in ProviderPages
    /\ call = NoCall
    /\ sa = {}
    /\ api_keys \in {<<>>, <<ApiKey("k-3", "sa-1", Lkc2, 10)>>,
                      <<ApiKey("k-1", "sa-1", Lkc1, 10), ApiKey("k-3", "sa-1", Lkc2, 61)>>}
    /\ phase = "read_all_sa"
    /\ Fresh

ReadNext ==
    \/ read_all_sa
    \/ post_init
    \/ delete_service_accounts
    \/ delete_service_account_tasks
    \/ delete_sa
    \/ delete_api_keys
    \/ delete_api_key_tasks_lookup
    \/ delete_api_key_tasks
    \/ delete_api_key
    \/ Return
    \/ populate_data_map

ReadSpec == ReadInit /\ [][ReadNext]_vars

(***************************************************************************)
(* A call of check_pair, each argument being None, the empty string or a   *)
(* value of the configuration.                                             *)
(***************************************************************************)
HelperInit ==
    /\ decl = {}
    /\ clusters = {}
    /\ cfg = [ignore_service_account_list |-> {},
              detect_ignore_ccloud_internal_accounts |-> FALSE,
              old_api_keys_deletion_wait_mins |-> 60,
              dry_run |-> FALSE,
              enable_sa_cleanup |-> FALSE]
    /\ pages = <<>>
    /\ LET PairValues == {None, "", "api-key", "api-secret", "user", "password", "url",
                          "token"}
       IN call \in [fn : {"check_pair"}, key1Value : PairValues, key2Value : PairValues,
                    outcome : {"pending"}]
    /\ sa = {}
    /\ api_keys = <<>>
    /\ phase = "idle"
    /\ Fresh

HelperNext == check_pair_call

HelperSpec == HelperInit /\ [][HelperNext]_vars

(***************************************************************************)
(* One run of the caller: the phases of WorkflowManager, each called once, *)
(* in the order of PhaseOrder.  svc-a is declared alone, or with           *)
(* rest-proxy access next to the rest-proxy user svc-b.                    *)
(***************************************************************************)
RunInit == Constructed(RunDeclarations, BOOLEAN, {TRUE}, 1)

RunNext ==
    \/ create_service_accounts
    \/ create_service_account_tasks
    \/ create_sa
    \/ delete_service_accounts
    \/ delete_service_account_tasks
    \/ delete_sa
    \/ create_api_keys
    \/ create_api_key_tasks
    \/ create_api_key
    \/ delete_api_keys
    \/ delete_api_key_tasks_lookup
    \/ delete_api_key_tasks
    \/ delete_api_key
    \/ update_api_keys_in_secret_manager
    \/ secret_tasks
    \/ create_or_update_secrets
    \/ update_tags_in_secret_manager
    \/ update_secret_tags_tasks
    \/ add_tags
    \/ update_rest_proxy_api_keys_in_secret_manager
    \/ upsert_rest_proxy_secret_tasks
    \/ create_update_rest_proxy_secrets
    \/ Return

RunSpec == RunInit /\ [][RunNext]_vars

(***************************************************************************)
(* The same run, in which create_sa is also called once between two phases *)
(* with a name that may be cached already.                                 *)
(***************************************************************************)
\* CCloudServiceAccountList.create_sa, called with sa_name: what it does to the cache,
\* whether it posted to the provider, and the flag it returns
create_sa_call ==
    \E sa_name \in {SvcA, SvcB}, status_code \in {201, 401} :
        /\ phase = "idle"
        /\ crashed = "none"
        /\ call = NoCall
        /\ IF find_sa(sa_name) # NoSa
           THEN /\ call' = [fn |-> "create_sa", sa_name |-> sa_name, posted |-> FALSE,
                            created |-> FALSE, outcome |-> "returned"]
                /\ UNCHANGED <<sa, prev, crashed>>
           ELSE IF status_code = 201
           THEN /\ sa' = sa \cup {Account(sa_name)}
                /\ call' = [fn |-> "create_sa", sa_name |-> sa_name, posted |-> TRUE,
                            created |-> TRUE, outcome |-> "returned"]
                /\ prev' = Invalid
                /\ UNCHANGED crashed
           ELSE /\ crashed' = "Exception"
                /\ call' = [fn |-> "create_sa", sa_name |-> sa_name, posted |-> TRUE,
                            created |-> FALSE, outcome |-> "raised"]
                /\ UNCHANGED <<sa, prev>>
        /\ UNCHANGED <<decl, cfg, clusters, pages, api_keys, secrets, sasets, keysets,
                       secretreqs, phase, todo, cur, tasks, req, rerun, run, nkeys, ledger>>

CacheNext == RunNext \/ create_sa_call

CacheSpec == RunInit /\ [][CacheNext]_vars

(***************************************************************************)
(* The same run over one known cluster, before which the ledger of a       *)
(* CSMConfigDataMap may be populated from the same bundles.                *)
(***************************************************************************)
OrderInit ==
    /\ RunInit
    /\ clusters = {Lkc1}

OrderNext == RunNext \/ (nphases = 0 /\ populate_data_map)

OrderSpec == OrderInit /\ [][OrderNext]_vars

(***************************************************************************)
(* Properties.  They speak of the caches as the phase found them           *)
(* (req.snap), in terms of the declaration and of the caches alone.        *)
(***************************************************************************)
SaNames == {SvcA, SvcB, OldSa}
ClusterIds == {Lkc1, Lkc2}

\* the declaration asks for a key of account n on cluster c
DeclaredSlot(n, c) ==
    \E d \in decl :
        /\ d.name = n
        /\ \/ Wildcard \notin d.cluster_list /\ c \in d.cluster_list
           \/ Wildcard \in d.cluster_list /\ c \in clusters

\* the provider held a key of account n on cluster c when the phase started
KeyObserved(n, c) ==
    \E a \in req.snap.sa : \E k \in Range(req.snap.api_keys) :
        a.name = n /\ k.owner_id = a.resource_id /\ k.cluster_id = c

\* the secret store held an entry for account n on cluster c when the phase started
SecretStored(n, c) ==
    \E x \in req.snap.secrets : x.sa_name = n /\ x.cluster_id = c

\* the phase has yielded an api-key create task for account n on cluster c
KeyCreateTask(n, c) ==
    \E i \in DOMAIN tasks :
        /\ tasks[i].task_type = "create"
        /\ tasks[i].object_type = "api-key"
        /\ tasks[i].item = Join(n, c)

\* the phase has run to its end without an exception
Completed(p) == req.of = p /\ phase = "idle" /\ crashed = "none"

SecretLost(n, c) == DeclaredSlot(n, c) /\ KeyObserved(n, c) /\ ~SecretStored(n, c)

\* C1: secret-loss recovery. In the API-key create phase every declared composite key
\* that has an API key in the provider and no entry in the secret store is in the
\* create request, and has its api-key create task once the generator has run to its end.
C1_SecretLossRecovery ==
    req.of = "create_api_keys" =>
        \A n \in SaNames, c \in ClusterIds :
            SecretLost(n, c) =>
                /\ Join(n, c) \in req.key_create
                /\ Completed("create_api_keys") => KeyCreateTask(n, c)

C1_Witness ==
    /\ Completed("create_api_keys")
    /\ SecretLost(SvcA, Lkc1)
    /\ KeyCreateTask(SvcA, Lkc1)
    /\ \E i \in DOMAIN tasks : tasks[i].item = Join(SvcA, Lkc1) /\ tasks[i].eff = "ok"

\* the composite keys the declaration expands to, against the known clusters
DeclaredNow ==
    {k \in {Join(n, c) : n \in SaNames, c \in ClusterIds} :
        DeclaredSlot(Split(k)[1], Split(k)[2])}

\* the composite keys the provider held for declared accounts when the phase started
ObservedThen ==
    {k \in {Join(n, c) : n \in SaNames, c \in ClusterIds} :
        /\ \E d \in decl : d.name = Split(k)[1]
        /\ KeyObserved(Split(k)[1], Split(k)[2])}

\* C2 (as claimed): after the refresh that starts an API-key phase, the declared key set
\* is exactly the expansion of the declaration and the observed key set is exactly the
\* keys observed for declared accounts; nothing of an earlier refresh remains.
C2_RefreshedSetsExact ==
    req.of \in {"create_api_keys", "delete_api_keys"} =>
        /\ api_keys_in_def = DeclaredNow
        /\ api_keys_in_ccloud = ObservedThen

DiffPhases == {"create_service_accounts", "delete_service_accounts", "create_api_keys",
               "delete_api_keys"}

RequestSets(r) ==
    <<r.sa_create, r.sa_delete, r.key_create, r.secret_create, r.secret_update,
      r.key_orphans, r.key_aged>>

\* the phase in progress (or the last one) is a second pass of a diff over the state
\* its first pass saw, nothing having been mutated in between
SecondPass == rerun.valid /\ req.of \in DiffPhases

\* over unmutated state a second pass of a diff recomputes the sets of its first pass
SecondPassSame ==
    SecondPass => RequestSets(req) = RequestSets(rerun.req)

\* the names of the accounts in a cache whose resource id is ignore-listed
IgnoredNames(accounts) ==
    {a.name : a \in {x \in accounts : x.resource_id \in cfg.ignore_service_account_list}}

\* the names the service-account delete tasks of a task list target
SaDeleteTargets(ts) ==
    {ts[i].task_object.sa_name :
        i \in {j \in DOMAIN ts : ts[j].task_type = "delete"
                                  /\ ts[j].object_type = "service-account"}}

\* C4 (as claimed): no service-account delete task, of the phase generator or of the
\* task ledger, targets an account whose resource id is ignore-listed.
C4_IgnoredNeverDeleted ==
    /\ SaDeleteTargets(tasks) \cap IgnoredNames(req.snap.sa) = {}
    /\ SaDeleteTargets(ledger) \cap IgnoredNames(sa) = {}

KeyDeleteTasks ==
    {i \in DOMAIN tasks : tasks[i].task_type = "delete" /\ tasks[i].object_type = "api-key"}

KeyTargeted(id) == \E i \in KeyDeleteTasks : tasks[i].task_object.api_key = id

\* the secret store referred to this key id when the phase started
KeyIdStored(id) == \E x \in req.snap.secrets : x.api_key = id

OwnerIgnored(k) == k.owner_id \in cfg.ignore_service_account_list

\* C5: no api-key delete task targets a key whose owner is ignore-listed, and the
\* orphan request holds no composite key of an ignore-listed account.
C5_NoKeyDeleteForIgnoredOwner ==
    req.of = "delete_api_keys" =>
        /\ \A k \in Range(req.snap.api_keys) : KeyTargeted(k.api_key) => ~OwnerIgnored(k)
        /\ \A item \in req.key_orphans : Split(item)[1] \notin IgnoredNames(req.snap.sa)

\* an old key without a stored secret is kept because its owner is ignored, the observed
\* and undeclared slot of that owner is not an orphan, and another old key is deleted
C5_Witness ==
    /\ Completed("delete_api_keys")
    /\ \E k \in Range(req.snap.api_keys) :
           /\ OwnerIgnored(k)
           /\ k.age > cfg.old_api_keys_deletion_wait_mins
           /\ ~KeyIdStored(k.api_key)
           /\ ~KeyTargeted(k.api_key)
           /\ \E a \in req.snap.sa :
                  /\ a.resource_id = k.owner_id
                  /\ Join(a.name, k.cluster_id) \in ObservedThen \ DeclaredNow
                  /\ Join(a.name, k.cluster_id) \notin req.key_orphans
    /\ \E k \in Range(req.snap.api_keys) : ~OwnerIgnored(k) /\ KeyTargeted(k.api_key)

\* what the claim asks of a key for the aged-key cleanup to select it
AgedSelectable(k) ==
    /\ k.age > cfg.old_api_keys_deletion_wait_mins
    /\ ~OwnerIgnored(k)
    /\ ~KeyIdStored(k.api_key)

AgedTargets ==
    {tasks[i].task_object.api_key : i \in {j \in KeyDeleteTasks : tasks[j].origin = "aged"}}

\* C6: the aged-key cleanup selects exactly the observed keys that are older than the
\* threshold, whose owner is not ignored and whose id no stored secret refers to; its
\* tasks target only those keys, and all of them once the generator has run to its end.
C6_AgedCleanupSelection ==
    req.of = "delete_api_keys" =>
        LET selectable == {k.api_key : k \in {x \in Range(req.snap.api_keys) :
                                                  AgedSelectable(x)}} IN
        /\ req.key_aged = selectable
        /\ AgedTargets \subseteq selectable
        /\ Completed("delete_api_keys") => AgedTargets = selectable

\* a key older than the threshold is deleted while a key exactly as old as the
\* threshold is left alone
C6_Witness ==
    /\ Completed("delete_api_keys")
    /\ \E k \in Range(req.snap.api_keys) :
           /\ k.age = cfg.old_api_keys_deletion_wait_mins
           /\ ~OwnerIgnored(k)
           /\ ~KeyIdStored(k.api_key)
           /\ k.api_key \notin AgedTargets
    /\ \E k \in Range(req.snap.api_keys) :
           /\ k.age = cfg.old_api_keys_deletion_wait_mins + 1
           /\ k.api_key \in AgedTargets
           /\ \E i \in KeyDeleteTasks :
                  tasks[i].task_object.api_key = k.api_key /\ tasks[i].eff = "ok"

\* the life of a task the claim allows: not started until its status is set, set at most
\* once, and then success or failed
SetAtMostOnce(t) ==
    /\ t.status \in {sts_not_started, sts_success, sts_failed}
    /\ t.nsets <= 1
    /\ t.nsets = 0 => t.status = sts_not_started

\* C7 (as claimed): every task starts not started and has its status set at most once,
\* to success or to failed; no task holds any other status.
C7_StatusSetAtMostOnce ==
    /\ \A i \in DOMAIN tasks : SetAtMostOnce(tasks[i])
    /\ \A i \in DOMAIN ledger : SetAtMostOnce(ledger[i])

\* C8 (as claimed): in a phase that is not a dry run, a task whose effector call did not
\* succeed is failed, and no exception of an effector escapes the phase.
C8_EffectorFailureRecorded ==
    ~cfg.dry_run =>
        /\ \A i \in DOMAIN tasks : tasks[i].eff = "fail" => tasks[i].status = sts_failed
        /\ crashed # "Exception"

\* the phase is over: its method has returned or an exception has escaped it
PhaseOver == req.of # "none" /\ (phase = "idle" \/ crashed # "none")

EffectorFailed == \E i \in DOMAIN tasks : tasks[i].eff \in {"fail", "raised"}

\* C9 (as claimed): when a phase that is not a dry run is over and one of its effector
\* calls failed, every item of its request has had its task generated and the effector
\* of every task has been invoked.
C9_FailureDoesNotAbortPhase ==
    (~cfg.dry_run /\ PhaseOver /\ EffectorFailed /\ crashed \in {"none", "Exception"}) =>
        /\ todo = {}
        /\ \A i \in DOMAIN tasks : tasks[i].eff # "none"

\* C10 (as claimed): a phase whose task names a service account that is not in the
\* provider cache skips the task; looking the account up never raises.
C10_MissingResourceSkipped ==
    req.of \in {"create_api_keys", "update_api_keys_in_secret_manager"} =>
        crashed # "AttributeError: find_sa"

\* the composite keys the secret store held an entry for when the phase started
StoredThen == {Join(x.sa_name, x.cluster_id) : x \in req.snap.secrets}

\* the api-key create tasks the phase has yielded for a composite key
KeyCreateTasksOf(k) ==
    {i \in DOMAIN tasks : /\ tasks[i].task_type = "create"
                          /\ tasks[i].object_type = "api-key"
                          /\ tasks[i].item = k}

\* C12: the api-key create request is (declared - observed) union (declared - stored);
\* no composite key has two create tasks, and each key of the request has exactly one
\* once the generator has run to its end.
C12_ForceRecreateOnce ==
    req.of = "create_api_keys" =>
        /\ req.key_create = (DeclaredNow \ ObservedThen) \cup (DeclaredNow \ StoredThen)
        /\ \A k \in DeclaredNow \cup ObservedThen : Cardinality(KeyCreateTasksOf(k)) <= 1
        /\ Completed("create_api_keys") =>
               \A k \in req.key_create : Cardinality(KeyCreateTasksOf(k)) = 1

\* the composite key (or the account name) a task targets
TaskSlot(t) ==
    IF t.origin \in {"aged", "orphan_key"}
    THEN Join(t.task_object.sa_name, t.task_object.cluster_id)
    ELSE t.item

NoTwoOnOneSlot(ts) ==
    \A i, j \in DOMAIN ts :
        (i # j /\ ts[i].object_type = ts[j].object_type) => TaskSlot(ts[i]) # TaskSlot(ts[j])

\* C13 (as claimed): within one pass no two tasks of the same object type target the
\* same composite key.
C13_CompositeIdentity == NoTwoOnOneSlot(tasks) /\ NoTwoOnOneSlot(ledger)

\* what the claim asks of a set of declared composite keys: for every definition, one
\* key per known cluster when its cluster list holds the wildcard, one per listed
\* cluster otherwise, and nothing else
ExpandsDeclaration(keys) ==
    /\ \A d \in decl :
           LET mine == {k \in keys : Split(k)[1] = d.name} IN
           IF Wildcard \in d.cluster_list
           THEN /\ \A c \in clusters : Join(d.name, c) \in mine
                /\ \A k \in mine : Split(k)[2] \in clusters
           ELSE /\ \A c \in d.cluster_list : Join(d.name, c) \in mine
                /\ \A k \in mine : Split(k)[2] \in d.cluster_list
    /\ \A k \in keys : \E d \in decl : Split(k)[1] = d.name

\* C14: the declared composite keys of the API-key reconciler and of the ledger are the
\* wildcard expansion of the declaration: one key per known cluster for an account that
\* lists the wildcard, one key per listed cluster id for an account that does not.
C14_WildcardExpansion ==
    /\ ExpandsDeclaration(api_keys_in_def)
    /\ ExpandsDeclaration(local_api_keys_in_def)

\* a wildcard account over two known clusters, its two keys requested by a started phase
C14_Witness ==
    /\ req.of = "create_api_keys"
    /\ \E d \in decl : d.name = SvcA /\ Wildcard \in d.cluster_list
    /\ clusters = {Lkc1, Lkc2}
    /\ {k \in api_keys_in_def : Split(k)[1] = SvcA} = {Join(SvcA, Lkc1), Join(SvcA, Lkc2)}
    /\ {Join(SvcA, Lkc1), Join(SvcA, Lkc2)} \subseteq req.secret_create

\* the names the declaration holds, and the names the account cache held when the
\* phase started
DeclaredNames == {n \in SaNames : \E d \in decl : d.name = n}
ObservedNamesThen == {n \in SaNames : \E a \in req.snap.sa : a.name = n}
ObservedNamesNow == {n \in SaNames : \E a \in sa : a.name = n}

\* C15: to_create(A, B) is A minus B, to_delete(A, B) is B minus A and to_create(A, A)
\* is empty; the service-account create set is the declared names not observed, the raw
\* delete set the observed names not declared (less the ignored names in the generator).
C15_SetDiff ==
    /\ \A A, B \in {sa_in_def, sa_in_ccloud, ignore_sa_names} :
           /\ \A x \in A \cup B :
                  /\ x \in find_items_to_be_created(A, B) <=> (x \in A /\ x \notin B)
                  /\ x \in find_items_to_be_deleted(A, B) <=> (x \in B /\ x \notin A)
           /\ find_items_to_be_created(A, B) \subseteq A
           /\ find_items_to_be_deleted(A, B) \subseteq B
           /\ find_items_to_be_created(A, A) = {}
    /\ req.of = "create_service_accounts" =>
           \A n \in SaNames :
               n \in req.sa_create <=> (n \in DeclaredNames /\ n \notin ObservedNamesThen)
    /\ req.of = "delete_service_accounts" =>
           \A n \in SaNames :
               n \in req.sa_delete <=>
                   /\ n \in ObservedNamesThen
                   /\ n \notin DeclaredNames
                   /\ n \notin IgnoredNames(req.snap.sa)
    /\ \A n \in SaNames :
           /\ n \in rp_create_req \cup non_rp_create_req <=>
                  (n \in DeclaredNames /\ n \notin ObservedNamesNow)
           /\ n \in delete_req <=> (n \in ObservedNamesNow /\ n \notin DeclaredNames)

\* a create pass over a declared account that is missing and an observed account that is
\* not declared: only the first is created
C15_Witness ==
    /\ Completed("create_service_accounts")
    /\ req.sa_create = {SvcA}
    /\ OldSa \in ObservedNamesThen
    /\ \E i \in DOMAIN tasks : tasks[i].item = SvcA /\ tasks[i].eff = "ok"
    /\ delete_req = {OldSa}

\* the service-account delete tasks of a task list that target a name
SaDeleteTasksOf(ts, n) ==
    {i \in DOMAIN ts : /\ ts[i].task_type = "delete"
                       /\ ts[i].object_type = "service-account"
                       /\ ts[i].item = n}

\* C16 (as claimed): service-account delete tasks are produced only when
\* enable_sa_cleanup is true; an observed account that is neither declared nor ignored
\* then has exactly one delete task, and there is none at all when the flag is false.
C16_DeleteOnlyWithCleanup ==
    /\ ~cfg.enable_sa_cleanup => SaDeleteTargets(tasks) \cup SaDeleteTargets(ledger) = {}
    /\ (cfg.enable_sa_cleanup /\ Completed("delete_service_accounts")) =>
           \A n \in (ObservedNamesThen \ DeclaredNames) \ IgnoredNames(req.snap.sa) :
               Cardinality(SaDeleteTasksOf(tasks, n)) = 1

\* C19 (as claimed): the task generators and the ledger's populate functions run to
\* their end for every declaration and every snapshot; none of their lookups raises.
C19_GenerationTotal ==
    crashed \notin {"AttributeError: find_cluster", "AttributeError: sa.get",
                    "AttributeError: find_service_account", "populate_secrets_tasks"}

\* C20 (as claimed): a service-account delete task whose effector was called ends with
\* status success and without an error, also when the provider answers that it no
\* longer has the account.
C20_DeleteAbsentSucceeds ==
    \A i \in DOMAIN tasks :
        (/\ tasks[i].task_type = "delete"
         /\ tasks[i].object_type = "service-account"
         /\ tasks[i].eff # "none") =>
            tasks[i].status = sts_success /\ crashed = "none"

\* the items of a phase's request for which its generator yields a task unconditionally
Requested(r) ==
    CASE r.of = "create_service_accounts" -> r.sa_create
      [] r.of = "delete_service_accounts" -> r.sa_delete
      [] r.of = "create_api_keys" -> r.key_create
      [] r.of = "update_api_keys_in_secret_manager" -> r.secret_create \cup r.secret_update
      [] r.of = "update_tags_in_secret_manager" -> r.tags
      [] OTHER -> {}

Unconditional ==
    {"create_service_accounts", "delete_service_accounts", "create_api_keys",
     "update_api_keys_in_secret_manager", "update_tags_in_secret_manager"}

\* C11: dry run. With dry_run set, in every phase of a run no effector is called and no
\* status is set: every task stays Not Started, the provider caches and the secret-store
\* cache are as the phase found them, and a phase that has returned has yielded a task
\* for every item of its request.
C11_DryRun ==
    cfg.dry_run =>
        /\ \A i \in DOMAIN tasks :
               /\ tasks[i].status = sts_not_started
               /\ tasks[i].eff = "none"
               /\ tasks[i].nsets = 0
        /\ cur = 0
        /\ req.of # "none" =>
               /\ sa = req.snap.sa
               /\ api_keys = req.snap.api_keys
               /\ secrets = req.snap.secrets
        /\ (phase = "idle" /\ crashed = "none" /\ req.of \in Unconditional) =>
               {tasks[i].item : i \in DOMAIN tasks} = Requested(req)

\* a dry run has gone through the phases up to the tags phase, which yielded a task
C11_Witness ==
    /\ cfg.dry_run
    /\ Completed("update_tags_in_secret_manager")
    /\ Len(tasks) > 0
    /\ step = 7

\* type, object type and item of the tasks a phase has yielded, in the order of the yields
Kinds(ts) == [i \in DOMAIN ts |-> <<ts[i].task_type, ts[i].object_type, ts[i].item>>]

\* the phase that has just returned is phase p of a run that is not a dry run, over the
\* declaration "svc-a on lkc-1, not a rest-proxy user", and it found these accounts and
\* keys and an empty secret store
ScenarioAt(p, accounts, keys) ==
    /\ decl = {SaDef(SvcA, {Lkc1})}
    /\ ~cfg.dry_run
    /\ Completed(p)
    /\ req.snap.sa = accounts
    /\ req.snap.api_keys = keys
    /\ req.snap.secrets = {}

FirstKey == <<NewApiKey(1, "sa-1", Lkc1)>>

\* C17: the end-to-end scenario. Over empty observed state the service-account phase
\* yields one create task for svc-a; with the account created the API-key phase yields
\* one create task for svc-a~lkc-1; with the key created the secrets phase yields one
\* create task for the same composite key; the delete phases, the tags phase and the
\* rest-proxy phase yield nothing.
C17_Scenario ==
    /\ ScenarioAt("create_service_accounts", {}, <<>>) =>
           Kinds(tasks) = << <<"create", "service-account", SvcA>> >>
    /\ ScenarioAt("delete_service_accounts", {Account(SvcA)}, <<>>) => tasks = <<>>
    /\ ScenarioAt("create_api_keys", {Account(SvcA)}, <<>>) =>
           Kinds(tasks) = << <<"create", "api-key", Join(SvcA, Lkc1)>> >>
    /\ ScenarioAt("delete_api_keys", {Account(SvcA)}, FirstKey) => tasks = <<>>
    /\ ScenarioAt("update_api_keys_in_secret_manager", {Account(SvcA)}, FirstKey) =>
           Kinds(tasks) = << <<"create", "secrets-store", Join(SvcA, Lkc1)>> >>
    /\ (/\ decl = {SaDef(SvcA, {Lkc1})}
        /\ ~cfg.dry_run
        /\ sa = {Account(SvcA)}
        /\ api_keys = FirstKey
        /\ secrets = {StoredSecret(SvcA, FirstKey[1], FALSE)}
        /\ \/ Completed("update_tags_in_secret_manager")
           \/ Completed("update_rest_proxy_api_keys_in_secret_manager")) => tasks = <<>>

\* the run has reached the secrets phase of the scenario, and its one task succeeded
C17_Witness ==
    /\ ScenarioAt("update_api_keys_in_secret_manager", {Account(SvcA)}, FirstKey)
    /\ step = 6
    /\ Len(tasks) = 1
    /\ tasks[1].status = sts_success
    /\ secrets = {StoredSecret(SvcA, FirstKey[1], FALSE)}

\* the place of an object type in the dependency order
Rank(object_type) ==
    CASE object_type = "service-account" -> 1
      [] object_type = "api-key" -> 2
      [] object_type = "secrets-store" -> 3
      [] OTHER -> 4

\* the place of a phase of WorkflowManager in the order service accounts, API keys,
\* secrets, secret tags, rest-proxy secrets; 0 before the first phase
Stage(p) ==
    CASE p \in {"create_service_accounts", "delete_service_accounts"} -> 1
      [] p \in {"create_api_keys", "delete_api_keys"} -> 2
      [] p = "update_api_keys_in_secret_manager" -> 3
      [] p = "update_tags_in_secret_manager" -> 4
      [] p = "update_rest_proxy_api_keys_in_secret_manager" -> 5
      [] OTHER -> 0

\* the object type of the tasks of a stage
StageType(n) ==
    CASE n = 1 -> "service-account"
      [] n = 2 -> "api-key"
      [] n = 5 -> "rest-proxy-user"
      [] OTHER -> "secrets-store"

\* in the ledger, a task of an earlier object type has the lower sequence number
LedgerOrder ==
    \A i, j \in DOMAIN ledger :
        Rank(ledger[i].object_type) < Rank(ledger[j].object_type) => i < j

\* the tasks of a phase are of its stage's object type; when a phase that is no dry run
\* has returned, every task it generated has been executed
TasksInStage ==
    /\ \A i \in DOMAIN tasks : tasks[i].object_type = StageType(Stage(req.of))
    /\ (phase = "idle" /\ crashed = "none" /\ ~cfg.dry_run) =>
           \A i \in DOMAIN tasks : tasks[i].eff # "none"

\* a phase starts when the one before it has returned, and is of the same stage or of a
\* later one; a task is generated when the tasks before it have been executed; the
\* cache of a stage changes only while a phase of that stage runs
StageStep ==
    /\ req'.of # req.of =>
           /\ phase = "idle" /\ todo = {} /\ cur = 0
           /\ Stage(req.of) <= Stage(req'.of)
    /\ (req'.of = req.of /\ Len(tasks') > Len(tasks) /\ ~cfg.dry_run) =>
           \A i \in DOMAIN tasks : tasks[i].eff # "none"
    /\ sa' # sa => Stage(phase) = 1
    /\ api_keys' # api_keys => Stage(phase) = 2
    /\ secrets' # secrets => Stage(phase) \in {3, 4, 5}

TaggedForSync(v) == Truth(v.rp_access) /\ v.sync_needed_for_rp = BoolOf(TRUE)

\* C21 (as claimed): when the rest-proxy phase starts over a secret store that holds a
\* secret the tags phase has flagged, it yields an upsert task for every rest-proxy member.
C21_TagVisibility ==
    (/\ Completed("update_rest_proxy_api_keys_in_secret_manager")
     /\ \E v \in req.snap.secrets : TaggedForSync(v)) =>
        \A k \in req.rp_users : \E i \in DOMAIN tasks : tasks[i].item = k

\* a key created in this run on that cluster was in the cache when the phase started
NewKeyOn(cluster_id) ==
    \E k \in Range(req.snap.api_keys) : k.api_secret /\ k.cluster_id = cluster_id

\* a secret of the store the phase found is flagged: access granted and sync needed
SyncFlagged == \E v \in req.snap.secrets : Truth(v.rp_access) /\ Truth(v.sync_needed_for_rp)

RpTaskFor(k) == \E i \in DOMAIN tasks : tasks[i].item = k

\* C22: the rest-proxy upsert guard. A rest-proxy task is yielded for a member only if a
\* key was created in this run on the member's cluster or a stored secret is flagged as
\* needing the rest-proxy sync; a member for which neither holds has no task.
C22_UpsertGuard ==
    req.of = "update_rest_proxy_api_keys_in_secret_manager" =>
        /\ \A i \in DOMAIN tasks : tasks[i].object_type = "rest-proxy-user"
        /\ \A k \in req.rp_users :
               RpTaskFor(k) => (NewKeyOn(Split(k)[2]) \/ SyncFlagged)

\* the phase has returned: one member has its task, for a key created on its cluster, and
\* another member, on a cluster without a new key, has none
C22_Witness ==
    /\ Completed("update_rest_proxy_api_keys_in_secret_manager")
    /\ ~SyncFlagged
    /\ \E k \in req.rp_users : RpTaskFor(k) /\ NewKeyOn(Split(k)[2])
    /\ \E k \in req.rp_users : ~RpTaskFor(k) /\ ~NewKeyOn(Split(k)[2])

\* the accounts of the cache that carry a provider-managed name
InternalAccounts ==
    {a \in sa : startswith(a.name, ConnectPrefix) \/ startswith(a.name, KsqlPrefix)}

\* C23 (as claimed): internal-account detection. Once the accounts are read: with the
\* detect flag on, every cached account with a provider-managed name is ignore-listed and
\* marked ignored, and no service-account delete task, of the delete phase or of the
\* ledger, targets it; with the flag off, such an account is marked ignored exactly when
\* its resource id is ignore-listed, and the ignore list is the configured one.
C23_InternalAccounts ==
    phase # "read_all_sa" =>
        \A a \in InternalAccounts :
            IF cfg.detect_ignore_ccloud_internal_accounts
            THEN /\ a.resource_id \in cfg.ignore_service_account_list
                 /\ a.is_ignored
                 /\ a.name \notin SaDeleteTargets(tasks)
                 /\ a.name \notin SaDeleteTargets(ledger)
            ELSE /\ a.is_ignored <=> a.resource_id \in cfg.ignore_service_account_list
                 /\ cfg.ignore_service_account_list \in {{"sa-3"}, {"sa-4"}}

\* the part of C23 that the delete phase of WorkflowManager keeps
InternalAccountsKeptByPhase ==
    phase # "read_all_sa" =>
        \A a \in InternalAccounts :
            IF cfg.detect_ignore_ccloud_internal_accounts
            THEN /\ a.resource_id \in cfg.ignore_service_account_list
                 /\ a.is_ignored
                 /\ a.name \notin SaDeleteTargets(tasks)
            ELSE a.is_ignored <=> a.resource_id \in cfg.ignore_service_account_list

\* the delete phase has returned with a delete task for the account that is not declared
\* and none for the connector's account, which was detected and not ignore-listed before
DetectedAndKept ==
    /\ Completed("delete_service_accounts")
    /\ cfg.detect_ignore_ccloud_internal_accounts
    /\ \E a \in InternalAccounts : a.resource_id = "sa-4" /\ a.is_ignored
    /\ "sa-3" \in cfg.ignore_service_account_list
    /\ OldSa \notin SaDeleteTargets(tasks)
    /\ (<<"my-">> \o ConnectPrefix \o <<"x1">>) \in SaDeleteTargets(tasks)

\* C24 (as claimed): check_pair returns when both values are present or both are absent,
\* and raises when one is present and the other is absent.
C24_CheckPair ==
    call.outcome \in {"raised", "returned"} =>
        (call.outcome = "returned" <=> (Truthy(call.key1Value) <=> Truthy(call.key2Value)))

\* the step is a call of set_task_status on the ledger
SetStatusStep == call'.fn = "set_task_status" /\ ledger' # ledger

\* what a call does to the ledger apart from the payload of its task
SetStatusFrame ==
    /\ DOMAIN ledger' = DOMAIN ledger
    /\ call'.task_key \in DOMAIN ledger
    /\ ledger'[call'.task_key].status = call'.task_status
    /\ ledger'[call'.task_key].status_message = call'.status_msg
    /\ ledger'[call'.task_key].task_type = ledger[call'.task_key].task_type
    /\ ledger'[call'.task_key].object_type = ledger[call'.task_key].object_type
    /\ \A k \in DOMAIN ledger \ {call'.task_key} : ledger'[k] = ledger[k]

\* C25 (as claimed): set_task_status overwrites the status and the message of its task,
\* replaces the payload when a payload is supplied (anything but None), leaves the payload
\* when none is supplied, and leaves every other task of the ledger as it was.
C25_SetStatus ==
    [][SetStatusStep =>
        /\ SetStatusFrame
        /\ ledger'[call'.task_key].task_object =
              IF call'.object_payload # PyNone
              THEN call'.object_payload
              ELSE ledger[call'.task_key].task_object]_vars

\* C25 (amended): set_task_status overwrites the status and the message of its task,
\* replaces the payload when a non-empty payload is supplied, leaves the payload when
\* None or an empty dict is supplied, and leaves every other task of the ledger as it was.
C25_SetStatusNonEmpty ==
    [][SetStatusStep =>
        /\ SetStatusFrame
        /\ ledger'[call'.task_key].task_object =
              IF call'.object_payload \notin {PyNone, EmptyDict}
              THEN call'.object_payload
              ELSE ledger[call'.task_key].task_object]_vars

\* a second task of the ledger has been set with an empty dict and has kept its payload,
\* after the first was set with a dict, which it holds now
C25_Witness ==
    /\ call.fn = "set_task_status"
    /\ call.object_payload = EmptyDict
    /\ call.task_key \in DOMAIN ledger
    /\ ledger[call.task_key].status = call.task_status
    /\ DOMAIN ledger[call.task_key].task_object # {}
    /\ \E k \in DOMAIN ledger : k < call.task_key /\ ledger[k].task_object = [result |-> "id"]

\* the key was, when the phase began, an orphan: its owner is declared, the owner's name
\* joined with the key's cluster is not a declared composite key, and the owner is not
\* ignore-listed
Orphan(k) ==
    \E a \in req.snap.sa :
        /\ a.resource_id = k.owner_id
        /\ a.name \in DeclaredNames
        /\ ~DeclaredSlot(a.name, k.cluster_id)
        /\ a.resource_id \notin cfg.ignore_service_account_list

\* C26 (as claimed): orphan key deletion. When delete_api_keys has returned, every API key
\* that was observed for a declared, not ignore-listed service account on a cluster that
\* is not declared for it is the target of a delete task carrying the key's id.
C26_OrphanKeysDeleted ==
    Completed("delete_api_keys") =>
        \A k \in Range(req.snap.api_keys) : Orphan(k) => KeyTargeted(k.api_key)

\* the payload of a secret task is that of its own cluster and of its own declaration
OwnPayload(task_object) ==
    \E d \in decl :
        /\ d.name = task_object.sa_name
        /\ task_object.need_rp_access = d.rp_access
        /\ task_object.is_rp_user = d.is_rp_user
        /\ task_object.env_id = EnvOf(task_object.cluster_id)

\* C27 (as claimed): every secret create or update task, of the ledger and of the secrets
\* phase, carries the env_id of its own cluster and the rp_access and is_rp_user flags of
\* the declaration of the account it names.
C27_SecretTaskPayload ==
    /\ \A i \in DOMAIN ledger :
          ledger[i].origin \in {"secret_create", "secret_update"}
              => OwnPayload(ledger[i].task_object)
    /\ \A i \in DOMAIN tasks :
          (tasks[i].origin \in {"secret_create", "secret_update"} /\ tasks[i].nsets = 0)
              => OwnPayload(tasks[i].task_object)

\* the caller's sequence of phases is over, it was no dry run, nothing raised and every
\* effector call succeeded
PassDone ==
    /\ step = Len(PhaseOrder) + 1
    /\ phase = "idle"
    /\ crashed = "none"
    /\ clean
    /\ ~cfg.dry_run

\* the sets a pass computes when it observes the state anew
ObservedAnewInDef == refresh_api_keys_in_def({})
ObservedAnewInCCloud == refresh_api_keys_in_ccloud({})

\* C28 (as claimed): convergence. After one full pass that was no dry run and in which
\* every effector call succeeded, a second pass over the resulting caches computes empty
\* service-account create, api-key create, secret create and secret update sets, whether
\* it observes the state anew or goes on with the sets of the first pass.
C28_Convergence ==
    PassDone =>
        /\ create_service_account_req(RefreshedSaInDef, RefreshedSaInCCloud) = {}
        /\ create_api_keys_req(ObservedAnewInDef, ObservedAnewInCCloud) = {}
        /\ new_create_secrets_req(ObservedAnewInDef) = {}
        /\ new_update_secrets_req(ObservedAnewInDef, ObservedAnewInCCloud) = {}
        /\ create_api_keys_req(RefreshedKeysInDef, RefreshedKeysInCCloud) = {}
        /\ new_create_secrets_req(RefreshedKeysInDef) = {}
        /\ new_update_secrets_req(RefreshedKeysInDef, RefreshedKeysInCCloud) = {}

\* C3 (as claimed): idempotence. After a full pass that was no dry run and in which every
\* effector call succeeded, nothing else having touched the provider or the secret
\* store, a second pass that observes the declaration and the resulting caches computes
\* empty sets: no service-account create or delete, no api-key create, no orphan or aged
\* api-key delete, no secret create and no secret update.
C3_Idempotence ==
    PassDone =>
        /\ create_service_account_req(RefreshedSaInDef, RefreshedSaInCCloud) = {}
        /\ delete_service_account_req(RefreshedSaInDef, RefreshedSaInCCloud) = {}
        /\ create_api_keys_req(ObservedAnewInDef, ObservedAnewInCCloud) = {}
        /\ deletion_eligible_api_keys(ObservedAnewInDef, ObservedAnewInCCloud) = {}
        /\ delete_secret_mismatched_keys = {}
        /\ new_create_secrets_req(ObservedAnewInDef) = {}
        /\ new_update_secrets_req(ObservedAnewInDef, ObservedAnewInCCloud) = {}

\* the step is an effector call of phase p that succeeded
Succeeded(p) == phase = p /\ cur # 0 /\ tasks'[cur].eff = "ok"

\* the name the effector call of the step was made for
Subject == tasks[cur].task_object.sa_name

\* what the calls of create_sa and delete_sa do to the cache, step by step
CacheStep ==
    /\ Succeeded("create_service_accounts") =>
          /\ sa \subseteq sa'
          /\ \E a \in sa' : a.name = Subject
    /\ Succeeded("delete_service_accounts") =>
          ~ \E a \in sa' : a.name = Subject
    /\ (sa \ sa' # {}) =>
          /\ Succeeded("delete_service_accounts")
          /\ \A a \in sa \ sa' : a.name = Subject /\ a.name \notin DeclaredNames
    /\ (call'.fn = "create_sa" /\ call = NoCall /\ \E a \in sa : a.name = call'.sa_name) =>
          /\ sa' = sa
          /\ ~call'.posted
          /\ ~call'.created
    /\ Succeeded("create_api_keys") => \E a \in sa : a.name = Subject

\* C29: provider cache consistency across phases. No two cached accounts have one name;
\* a successful create_sa leaves the account in the cache, a successful delete_sa leaves
\* no account of that name, and nothing else removes an account, so that a declared
\* account created in a run is resolved by name in its API-key phase; create_sa for a
\* cached name posts nothing, adds nothing and returns not-created.
C29_CacheConsistency ==
    /\ [](\A a, b \in sa : a.name = b.name => a = b)
    /\ [][CacheStep]_vars

\* in the API-key phase a key has been created for svc-b, which only this run can have
\* created; create_sa was called for a cached name before, and old-sa has been deleted
C29_Witness ==
    /\ phase = "create_api_keys"
    /\ \E i \in DOMAIN tasks : tasks[i].eff = "ok" /\ Split(tasks[i].item)[1] = SvcB
    /\ call.fn = "create_sa" /\ ~call.posted
    /\ ~ \E a \in sa : a.name = OldSa
    /\ OldSa \in sa_in_ccloud

\* C30: when populate_data_map is called with API-key management disabled, every task of
\* the ledger is a service-account task: no api-key task and no secret task is generated,
\* whatever keys are declared, observed or stored.
C30_ApiMgmtDisabled ==
    (call.fn = "populate_data_map" /\ call.is_api_mgmt_disabled) =>
        \A i \in DOMAIN ledger : ledger[i].object_type = "service-account"

\* the ledger was populated with API-key management disabled and holds a service-account
\* task, while a declared key has neither a provider key nor a stored secret
C30_Witness ==
    /\ call.fn = "populate_data_map"
    /\ call.is_api_mgmt_disabled
    /\ ledger # <<>>
    /\ local_create_api_keys_req # {}
    /\ local_create_secrets_req # {}

\* the composite keys for which the phase has yielded a task of this type and object type
SlotsOf(task_type, object_type) ==
    {tasks[i].item : i \in {j \in DOMAIN tasks : /\ tasks[j].task_type = task_type
                                                  /\ tasks[j].object_type = object_type}}

\* C31: key and secret tasks stay paired. The secret create set and the secret update
\* set are disjoint, and their union is the api-key create set: in the sets the API-key
\* phase computes, in the sets populate_api_key_tasks computes, and in the tasks: when
\* the API-key phase has run to its end the keys with an api-key create task are the
\* union of the two sets, and when the secrets phase has run to its end the keys with a
\* secret create task are the create set and those with a secret update task are the
\* update set, so that no key has both.
C31_KeySecretPairing ==
    /\ create_secrets_req \cap update_secrets_req = {}
    /\ local_create_secrets_req \cap local_update_secrets_req = {}
    /\ local_create_api_keys_req = local_create_secrets_req \cup local_update_secrets_req
    /\ req.of = "create_api_keys" =>
          /\ req.secret_create = create_secrets_req
          /\ req.secret_update = update_secrets_req
          /\ req.key_create = create_secrets_req \cup update_secrets_req
          /\ SlotsOf("create", "api-key") \subseteq req.key_create
    /\ Completed("create_api_keys") =>
          SlotsOf("create", "api-key") = create_secrets_req \cup update_secrets_req
    /\ req.of = "update_api_keys_in_secret_manager" =>
          /\ req.secret_create = create_secrets_req
          /\ req.secret_update = update_secrets_req
          /\ SlotsOf("create", "secrets-store") \subseteq create_secrets_req
          /\ SlotsOf("update", "secrets-store") \subseteq update_secrets_req
    /\ Completed("update_api_keys_in_secret_manager") =>
          /\ SlotsOf("create", "secrets-store") = create_secrets_req
          /\ SlotsOf("update", "secrets-store") = update_secrets_req

\* the secrets phase of a run has returned with a secret create task for one key and a
\* secret update task for another, the API-key phase of the run having created both keys
C31_Witness ==
    /\ Completed("update_api_keys_in_secret_manager")
    /\ step = 6
    /\ SlotsOf("create", "secrets-store") # {}
    /\ SlotsOf("update", "secrets-store") # {}
    /\ nkeys = 2

\* the key is one of a declared composite key and a stored secret refers to its id, as
\* the phase found the caches
DeclaredAndInUse(sa_name, cluster_id, api_key) ==
    Join(sa_name, cluster_id) \in DeclaredNow /\ KeyIdStored(api_key)

\* the keys the phase found that are declared and in use, their owner being cached
KeysInUse ==
    {k \in Range(req.snap.api_keys) :
        \E a \in req.snap.sa :
            a.resource_id = k.owner_id /\ DeclaredAndInUse(a.name, k.cluster_id, k.api_key)}

\* C32: no api-key delete task targets a key whose composite key is declared and whose
\* id a stored secret refers to. The orphan request holds no declared composite key, the
\* aged request holds no key id of a stored secret, no task of either loop names such a
\* key, and every such key the phase found is still in the cache, whatever phases ran
\* before.
C32_KeyInUseKept ==
    req.of = "delete_api_keys" =>
        /\ req.key_orphans \cap DeclaredNow = {}
        /\ \A id \in req.key_aged : ~KeyIdStored(id)
        /\ \A i \in KeyDeleteTasks :
               ~DeclaredAndInUse(tasks[i].task_object.sa_name,
                                 tasks[i].task_object.cluster_id,
                                 tasks[i].task_object.api_key)
        /\ \A k \in KeysInUse : k \in Range(api_keys) /\ ~KeyTargeted(k.api_key)

\* the delete phase has returned after deleting an old key of a declared composite key,
\* while the equally old key of that composite key the stored secret refers to is kept
C32_Witness ==
    /\ Completed("delete_api_keys")
    /\ \E k \in KeysInUse :
           /\ k.age > cfg.old_api_keys_deletion_wait_mins
           /\ ~OwnerIgnored(k)
           /\ k \in Range(api_keys)
           /\ \E i \in KeyDeleteTasks :
                  /\ tasks[i].eff = "ok"
                  /\ tasks[i].task_object.cluster_id = k.cluster_id
                  /\ tasks[i].task_object.sa_id = k.owner_id
                  /\ tasks[i].task_object.api_key \notin {x.api_key : x \in Range(api_keys)}

====
